---- MODULE Spec2Model ----
(***************************************************************************)
(* storm-data-graphql-api: the ingest consumers (internal/kafka), the      *)
(* upsert path of the store (internal/store), the concurrency limiter and  *)
(* the depth limiter of the query facade (internal/graph).                 *)
(***************************************************************************)
EXTENDS Integers, Sequences, FiniteSets, TLC

(* ------------------------------ bounds --------------------------------- *)
MaxLog == 3          \* messages in the partition
MaxIds == 2          \* distinct report ids
MaxVals == 2         \* distinct field payloads of a report (store calls)
MaxBatchArg == 2     \* reports in one direct InsertStormReports call
MaxSent == 4         \* reports accepted by direct store calls
BatchSize == 2       \* bc.batchSize (BATCH_SIZE)
MaxReqs == 3         \* HTTP requests
MaxLimit == 2        \* largest limit given to ConcurrencyLimit
MaxDepthBound == 2   \* largest DepthLimit.MaxDepth
MaxNodes == 4        \* selections in one operation
MaxTime == 2         \* largest event time drawn
MaxMagnitude == 1    \* largest magnitude drawn
MaxRadiusSteps == 1  \* largest radius drawn, in steps of 20 miles
MaxGiven == 3        \* inputs given to a query scenario

(* ------------------------- program constants --------------------------- *)
InitialBackoff == 200
MaxBackoff == 5000
StatusOK == 200
StatusServiceUnavailable == 503

VARIABLES
  \* ---- ingest (internal/kafka) ----
  variant,       \* "batch" (BatchConsumer) or "single" (Consumer)
  log,           \* the partition: messages by offset+1
  idx,           \* reader position: number of messages fetched so far
  ctxDone,       \* ctx.Err() != nil
  pc,            \* position of Run
  items,         \* batch being assembled / processed (single: the message)
  backoff,       \* fetch-retry delay in ms
  commitLog,     \* offsets passed to CommitMessages, in call order
  committedPos,  \* consumer-group position: offsets < committedPos are consumed
  storeLog,      \* offsets handed to the store, in call order
  okWrites,      \* offsets covered by an insert call that returned nil
  result,        \* return value of Run
  failures,      \* kinds of failure the last step of the consumer handled
  logged,        \* kinds of failure the last step wrote to logger.Error
  metered,       \* kinds of failure the last step added to KafkaConsumerErrors
  \* ---- store (internal/store) ----
  rows,          \* table storm_reports, in insertion order
  insertedIds,   \* ids passed to insert calls that returned nil
  lastErr,       \* outcome of the last direct store call
  lastDbUp,      \* whether storage was reachable during the last direct call
  okReports,     \* number of reports passed to direct calls that returned nil
  reobserved,    \* a direct call that returned nil carried a stored id with other values
  \* ---- ConcurrencyLimit (internal/graph) ----
  limit,         \* capacity of the semaphore channel
  route,         \* per request: the path it asks for
  sem,           \* number of slots held: len(sem)
  reqState,      \* per request: "new", "serving", "done", "panicked", "rejected"
  slotsSeen,     \* per request: number of slots held when it arrived
  handlerCalls,  \* per request: invocations of the wrapped handler
  status,        \* per request: HTTP status written
  body,          \* per request: error message written by the middleware
  \* ---- DepthLimit (internal/graph) ----
  maxDepth,      \* DepthLimit.MaxDepth
  opSel,         \* selection set of the operation
  response,      \* outcome of InterceptOperation
  nextCalls,     \* invocations of the next operation handler
  \* ---- queries (internal/store, internal/graph) ----
  filter,        \* the *model.StormReportFilter handed to the store
  where,         \* clauses returned by the last buildWhereClause
  args,          \* positional arguments returned with them: args[n] is $n
  nextIdx,       \* next free positional index returned with them
  countArgs,     \* arguments passed with the COUNT query
  dataArgs,      \* arguments passed with the data query
  reports,       \* rows returned by the last ListStormReports
  totalCount,    \* total returned by the last ListStormReports
  agg,           \* *AggResult returned by the last Aggregations
  call,          \* the storage call made last
  pages,         \* results of the ListStormReports calls made so far
  \* ---- query facade (internal/graph) ----
  given,         \* the filter as the client sent it
  verr,          \* the error returned by the last ValidateFilter
  selection,     \* field names collected from the stormReports selection set
  storageCalls   \* storage calls the resolver has run for the query

ingestVars == <<variant, log, idx, ctxDone, pc, items, backoff,
                commitLog, committedPos, storeLog, okWrites, result,
               failures, logged, metered>>
storeVars == <<rows, insertedIds, lastErr, lastDbUp, okReports, reobserved>>
httpVars == <<limit, route, sem, reqState, slotsSeen, handlerCalls, status, body>>
depthVars == <<maxDepth, opSel, response, nextCalls>>
facadeVars == <<given, verr, selection, storageCalls>>
queryVars == <<filter, where, args, nextIdx, countArgs, dataArgs, reports,
               totalCount, agg, call, pages, facadeVars>>
vars == <<ingestVars, storeVars, httpVars, depthVars, queryVars>>

(* ------------------------------ helpers -------------------------------- *)
Range(s) == {s[i] : i \in 1..Len(s)}

Max(a, b) == IF a >= b THEN a ELSE b

MaxOfSeq(s) == CHOOSE m \in Range(s) : \A x \in Range(s) : x <= m

SeqsUpTo(S, n) == UNION {[1..k -> S] : k \in 0..n}

Ids == 1..MaxIds

\* A message value: a parseable report (ok) or malformed JSON (poison pill).
Parseable == {[id |-> i, v |-> 1, ok |-> TRUE] : i \in Ids}
Poison == [id |-> 0, v |-> 0, ok |-> FALSE]
Messages == Parseable \cup {Poison}

\* Report ids are content hashes, opaque names: a partition is taken up to
\* renaming, the ids numbered in the order of their first appearance.
FirstSeenOrder(l) ==
  \A i \in 1..Len(l) :
    l[i].id > 1 => \E j \in 1..(i - 1) : l[j].id = l[i].id - 1

\* kafkago.Message at offset o (offsets start at 0).
MsgAt(o) == log[o + 1]

\* json.Unmarshal(msg.Value, &report): the error is non-nil for a poison pill.
UnmarshalErr(o) == ~MsgAt(o).ok

\* model.StormReport carried by a parseable message.
ReportOf(o) == [id |-> MsgAt(o).id, v |-> MsgAt(o).v]

\* batchItem{msg, report, err}
Item(o) == [off |-> o, err |-> UnmarshalErr(o)]

(* ------------------------------- store --------------------------------- *)
HasId(t, id) == \E i \in 1..Len(t) : t[i].id = id

\* INSERT ... ON CONFLICT (id) DO NOTHING, one row, without the conflict clause.
UpsertRowAlwaysAppend(t, r) == Append(t, r)

\* INSERT ... ON CONFLICT (id) DO UPDATE, one row: the stored row is replaced.
UpsertRowOverwrite(t, r) ==
  IF HasId(t, r.id)
  THEN [i \in 1..Len(t) |-> IF t[i].id = r.id THEN r ELSE t[i]]
  ELSE Append(t, r)

\* INSERT ... ON CONFLICT (id) DO NOTHING, one row.
UpsertRow(t, r) == IF HasId(t, r.id) THEN t ELSE Append(t, r)

RECURSIVE UpsertAll(_, _)
\* The queued statements of one pgx.Batch, executed in queue order.
UpsertAll(t, rs) ==
  IF rs = <<>> THEN t ELSE UpsertAll(UpsertRow(t, Head(rs)), Tail(rs))

\* Store.InsertStormReport: one Exec; the error of the pool is returned as is.
InsertStormReport(t, r, dbUp) ==
  IF dbUp THEN [rows |-> UpsertRow(t, r), err |-> FALSE]
          ELSE [rows |-> t, err |-> TRUE]

\* Store.InsertStormReports: an empty slice returns nil without touching the
\* pool; otherwise one batch in an implicit transaction, any error fails it.
InsertStormReports(t, rs, dbUp) ==
  IF Len(rs) = 0 THEN [rows |-> t, err |-> FALSE]
  ELSE IF dbUp THEN [rows |-> UpsertAll(t, rs), err |-> FALSE]
  ELSE [rows |-> t, err |-> TRUE]

(* ------------------------------ consumer ------------------------------- *)
\* Doubling that checks the cap before the doubling instead of after it.
NextBackoffLateCap(b, maxB) == IF b < maxB THEN b * 2 ELSE maxB

\* retry.NextBackoff / min(backoff*2, maxBackoff)
NextBackoff(b, maxB) == IF b * 2 < maxB THEN b * 2 ELSE maxB

\* processBatch: the split of the items into validMsgs and poisonMsgs.
ValidOffsets(its) ==
  LET v == SelectSeq(its, LAMBDA it : ~it.err) IN [i \in 1..Len(v) |-> v[i].off]

PoisonOffsets(its) ==
  LET p == SelectSeq(its, LAMBDA it : it.err) IN [i \in 1..Len(p) |-> p[i].off]

ReportsOf(offs) == [i \in 1..Len(offs) |-> ReportOf(offs[i])]

\* Reader.CommitMessages(msgs...): on success the group position moves past
\* the highest offset of the call and never moves backwards.
CommitPos(pos, offs, ok) ==
  IF ok /\ Len(offs) > 0 THEN Max(pos, MaxOfSeq(offs) + 1) ELSE pos

\* BatchConsumer.Run after fetchBatch returned (items, nil).
RunAfterFetchAlwaysLoop(its, done) ==
  IF Len(its) = 0 THEN "fetch" ELSE "process"

RunAfterFetch(its, done) ==
  IF Len(its) = 0 THEN (IF done THEN "returned" ELSE "fetch") ELSE "process"

\* processBatch after InsertStormReports, skipping the error return.
AfterBatchInsertAlwaysCommit(err) == "commit"

\* processBatch after InsertStormReports: an error returns without commit.
AfterBatchInsert(err) == IF err THEN "fetch" ELSE "commit"

\* handleMessage after InsertStormReport, skipping the error return.
AfterInsertAlwaysCommit(err, done) == "commit"

\* handleMessage after InsertStormReport, stopping the consumer on any error.
AfterInsertStop(err, done) == IF err THEN "returned" ELSE "commit"

\* handleMessage after InsertStormReport: an error returns ctx.Err() != nil.
AfterInsert(err, done) ==
  IF err THEN (IF done THEN "returned" ELSE "fetch") ELSE "commit"

Returned(p) == IF p = "returned" THEN "nil" ELSE "none"

\* The failures Run, handleMessage and processBatch pass to logger.Error.
LoggedKinds == {"fetch", "unmarshal", "insert", "commit"}

\* The failures counted in KafkaConsumerErrors (labels fetch / fetch_batch,
\* unmarshal, insert / batch_insert); a CommitMessages error is logged only.
CountedKinds == {"fetch", "unmarshal", "insert"}

\* The error branches a step of the consumer went through.
Handled(fs) ==
  /\ failures' = fs
  /\ logged' = fs \cap LoggedKinds
  /\ metered' = fs \cap CountedKinds

\* The failure kind k, when it happened.
Kind(happened, k) == IF happened THEN {k} ELSE {}

(* --------------------------- initial states ---------------------------- *)
StoreIdle ==
  /\ rows = <<>> /\ insertedIds = {} /\ lastErr = "none" /\ lastDbUp = TRUE
  /\ okReports = 0 /\ reobserved = FALSE

HttpIdle ==
  /\ limit = 0 /\ route = <<>> /\ sem = 0 /\ reqState = <<>> /\ slotsSeen = <<>>
  /\ handlerCalls = <<>> /\ status = <<>> /\ body = <<>>

\* No operation has been intercepted yet.
NoResponse == [kind |-> "none", text |-> "", depth |-> 0, max |-> 0]

DepthIdle ==
  /\ maxDepth = 0 /\ opSel = <<>> /\ response = NoResponse /\ nextCalls = 0

\* No aggregation has been computed yet.
NoAgg == [byEventType |-> <<>>, byState |-> <<>>, byHour |-> <<>>]

\* A nil error of ValidateFilter; an error has its message text, the index
\* and event type it names (-1 and "" if none) and the maximum it quotes.
NoError == [text |-> "", index |-> -1, eventType |-> "", max |-> 0]

FacadeIdle ==
  /\ given = <<>> /\ verr = NoError /\ selection = {} /\ storageCalls = {}

QueryIdle ==
  /\ filter = <<>> /\ where = <<>> /\ args = <<>> /\ nextIdx = 0
  /\ countArgs = <<>> /\ dataArgs = <<>>
  /\ reports = <<>> /\ totalCount = 0 /\ agg = NoAgg /\ call = "none"
  /\ pages = <<>>
  /\ FacadeIdle

IngestIdle ==
  /\ variant = "none" /\ log = <<>> /\ idx = 0 /\ ctxDone = FALSE
  /\ pc = "off" /\ items = <<>>
  /\ backoff = InitialBackoff /\ commitLog = <<>> /\ committedPos = 0
  /\ storeLog = <<>> /\ okWrites = {} /\ result = "none"
  /\ failures = {} /\ logged = {} /\ metered = {}

\* NewConsumer / NewBatchConsumer followed by the entry of Run.
IngestInit ==
  /\ variant \in {"batch", "single"}
  /\ log \in SeqsUpTo(Messages, MaxLog)
  /\ FirstSeenOrder(log)
  /\ idx = 0 /\ ctxDone = FALSE
  /\ pc = "fetch" /\ items = <<>>
  /\ backoff = InitialBackoff
  /\ commitLog = <<>> /\ committedPos = 0
  /\ storeLog = <<>> /\ okWrites = {} /\ result = "none"
  /\ failures = {} /\ logged = {} /\ metered = {}
  /\ StoreIdle /\ HttpIdle /\ DepthIdle /\ QueryIdle

(* ----------------------- BatchConsumer (batch) ------------------------- *)
\* fetchBatch: FetchMessage returned a message; it is parsed and appended.
BFetchMessage ==
  /\ variant = "batch" /\ pc = "fetch"
  /\ Len(items) < BatchSize
  /\ idx < Len(log)
  /\ items' = Append(items, Item(idx))
  /\ idx' = idx + 1
  /\ Handled({})
  /\ UNCHANGED <<variant, log, ctxDone, pc, backoff, commitLog,
                 committedPos, storeLog, okWrites, result, storeVars, httpVars, depthVars, queryVars>>

\* fetchBatch returns (items, nil): the batch is full, the flush deadline has
\* passed, or FetchMessage failed while the parent context is cancelled.
\* Run resets the backoff and goes on with the items.
BFetchReturn ==
  /\ variant = "batch" /\ pc = "fetch"
  /\ backoff' = InitialBackoff
  /\ pc' = RunAfterFetch(items, ctxDone)
  /\ result' = Returned(pc')
  /\ Handled({})
  /\ UNCHANGED <<variant, log, idx, ctxDone, items, commitLog,
                 committedPos, storeLog, okWrites, storeVars, httpVars, depthVars, queryVars>>

\* fetchBatch: FetchMessage failed, the parent context is live and the flush
\* deadline has not passed: the items collected so far are discarded and
\* (nil, err) is returned.
BFetchError ==
  /\ variant = "batch" /\ pc = "fetch"
  /\ Len(items) < BatchSize
  /\ ~ctxDone
  /\ items' = <<>>
  /\ pc' = "fetcherr"
  /\ Handled({})
  /\ UNCHANGED <<variant, log, idx, ctxDone, backoff, commitLog,
                 committedPos, storeLog, okWrites, result, storeVars, httpVars, depthVars, queryVars>>

\* Run: err != nil; return nil when the context is cancelled, else back off.
BRunFetchErr ==
  /\ variant = "batch" /\ pc = "fetcherr"
  /\ pc' = IF ctxDone THEN "returned" ELSE "sleep"
  /\ result' = Returned(pc')
  /\ Handled(Kind(~ctxDone, "fetch"))
  /\ UNCHANGED <<variant, log, idx, ctxDone, items, backoff,
                 commitLog, committedPos, storeLog, okWrites, storeVars, httpVars, depthVars, queryVars>>

\* Run: retry.SleepWithContext(ctx, backoff); false returns nil, true doubles
\* the backoff and continues.
BSleep ==
  /\ variant = "batch" /\ pc = "sleep"
  /\ \E woke \in BOOLEAN :
       /\ (~woke) => ctxDone
       /\ pc' = IF woke THEN "fetch" ELSE "returned"
       /\ backoff' = IF woke THEN NextBackoff(backoff, MaxBackoff) ELSE backoff
  /\ result' = Returned(pc')
  /\ Handled({})
  /\ UNCHANGED <<variant, log, idx, ctxDone, items, commitLog,
                 committedPos, storeLog, okWrites, storeVars, httpVars, depthVars, queryVars>>

\* processBatch, first part: split the items and commit the poison pills.
BProcess ==
  /\ variant = "batch" /\ pc = "process"
  /\ LET poison == PoisonOffsets(items)
         valid == ValidOffsets(items)
     IN /\ commitLog' = commitLog \o poison
        /\ \E ok \in BOOLEAN :
             /\ committedPos' = CommitPos(committedPos, poison, ok)
             /\ Handled(Kind(Len(poison) > 0, "unmarshal")
                          \cup Kind(Len(poison) > 0 /\ ~ok, "commit"))
        /\ pc' = IF Len(valid) = 0 THEN "fetch" ELSE "insert"
        /\ items' = IF Len(valid) = 0 THEN <<>> ELSE items
  /\ UNCHANGED <<variant, log, idx, ctxDone, backoff, storeLog,
                 okWrites, result, storeVars, httpVars, depthVars, queryVars>>

\* processBatch, second part: InsertStormReports(validReports).
BInsert ==
  /\ variant = "batch" /\ pc = "insert"
  /\ \E dbUp \in BOOLEAN :
       LET valid == ValidOffsets(items)
           r == InsertStormReports(rows, ReportsOf(valid), dbUp)
       IN /\ rows' = r.rows
          /\ storeLog' = storeLog \o valid
          /\ okWrites' = IF r.err THEN okWrites ELSE okWrites \cup Range(valid)
          /\ insertedIds' = IF r.err THEN insertedIds
                            ELSE insertedIds \cup {MsgAt(o).id : o \in Range(valid)}
          /\ pc' = AfterBatchInsert(r.err)
          /\ Handled(Kind(r.err, "insert"))
          /\ items' = IF pc' = "fetch" THEN <<>> ELSE items
  /\ UNCHANGED <<variant, log, idx, ctxDone, backoff, commitLog,
                 committedPos, result, lastErr, lastDbUp, okReports, reobserved,
                 httpVars, depthVars, queryVars>>

\* processBatch, last part: CommitMessages(validMsgs...); an error is logged.
BCommit ==
  /\ variant = "batch" /\ pc = "commit"
  /\ LET valid == ValidOffsets(items)
     IN /\ commitLog' = commitLog \o valid
        /\ \E ok \in BOOLEAN :
             /\ committedPos' = CommitPos(committedPos, valid, ok)
             /\ Handled(Kind(~ok, "commit"))
  /\ pc' = "fetch"
  /\ items' = <<>>
  /\ UNCHANGED <<variant, log, idx, ctxDone, backoff, storeLog,
                 okWrites, result, storeVars, httpVars, depthVars, queryVars>>

(* -------------------------- Consumer (single) -------------------------- *)
\* Run: FetchMessage returned a message; the backoff is reset.
SFetchMessage ==
  /\ variant = "single" /\ pc = "fetch"
  /\ idx < Len(log)
  /\ items' = <<Item(idx)>>
  /\ idx' = idx + 1
  /\ backoff' = InitialBackoff
  /\ pc' = "handle"
  /\ Handled({})
  /\ UNCHANGED <<variant, log, ctxDone, commitLog, committedPos,
                 storeLog, okWrites, result, storeVars, httpVars, depthVars, queryVars>>

\* Run: FetchMessage returned an error (a reader failure or the context's).
SFetchError ==
  /\ variant = "single" /\ pc = "fetch"
  /\ pc' = "fetcherr"
  /\ Handled({})
  /\ UNCHANGED <<variant, log, idx, ctxDone, items, backoff,
                 commitLog, committedPos, storeLog, okWrites, result, storeVars, httpVars, depthVars, queryVars>>

\* Run: err != nil; return nil when the context is cancelled, else back off.
SRunFetchErr ==
  /\ variant = "single" /\ pc = "fetcherr"
  /\ pc' = IF ctxDone THEN "returned" ELSE "sleep"
  /\ result' = Returned(pc')
  /\ Handled(Kind(~ctxDone, "fetch"))
  /\ UNCHANGED <<variant, log, idx, ctxDone, items, backoff,
                 commitLog, committedPos, storeLog, okWrites, storeVars, httpVars, depthVars, queryVars>>

\* Run: select on ctx.Done() and time.After(backoff).
SSleep ==
  /\ variant = "single" /\ pc = "sleep"
  /\ \E woke \in BOOLEAN :
       /\ (~woke) => ctxDone
       /\ pc' = IF woke THEN "fetch" ELSE "returned"
       /\ backoff' = IF woke THEN NextBackoff(backoff, MaxBackoff) ELSE backoff
  /\ result' = Returned(pc')
  /\ Handled({})
  /\ UNCHANGED <<variant, log, idx, ctxDone, items, commitLog,
                 committedPos, storeLog, okWrites, storeVars, httpVars, depthVars, queryVars>>

\* handleMessage, first part: a poison pill is committed and skipped; a valid
\* message stops the consumer when the context is cancelled.
SHandle ==
  /\ variant = "single" /\ pc = "handle"
  /\ LET it == items[1]
     IN IF it.err
        THEN /\ commitLog' = Append(commitLog, it.off)
             /\ \E ok \in BOOLEAN :
                  /\ committedPos' = CommitPos(committedPos, <<it.off>>, ok)
                  /\ Handled({"unmarshal"} \cup Kind(~ok, "commit"))
             /\ pc' = "fetch"
             /\ items' = <<>>
        ELSE /\ pc' = IF ctxDone THEN "returned" ELSE "insert"
             /\ UNCHANGED <<commitLog, committedPos, items>>
             /\ Handled({})
  /\ result' = Returned(pc')
  /\ UNCHANGED <<variant, log, idx, ctxDone, backoff, storeLog,
                 okWrites, storeVars, httpVars, depthVars, queryVars>>

\* handleMessage, second part: InsertStormReport(&report).
SInsert ==
  /\ variant = "single" /\ pc = "insert"
  /\ \E dbUp \in BOOLEAN :
       LET o == items[1].off
           r == InsertStormReport(rows, ReportOf(o), dbUp)
       IN /\ rows' = r.rows
          /\ storeLog' = Append(storeLog, o)
          /\ okWrites' = IF r.err THEN okWrites ELSE okWrites \cup {o}
          /\ insertedIds' = IF r.err THEN insertedIds
                            ELSE insertedIds \cup {MsgAt(o).id}
          /\ pc' = AfterInsert(r.err, ctxDone)
          /\ Handled(Kind(r.err, "insert"))
          /\ items' = IF pc' = "commit" THEN items ELSE <<>>
  /\ result' = Returned(pc')
  /\ UNCHANGED <<variant, log, idx, ctxDone, backoff, commitLog,
                 committedPos, lastErr, lastDbUp, okReports, reobserved,
                 httpVars, depthVars, queryVars>>

\* handleMessage, last part: CommitMessages(msg); an error is logged.
SCommit ==
  /\ variant = "single" /\ pc = "commit"
  /\ commitLog' = Append(commitLog, items[1].off)
  /\ \E ok \in BOOLEAN :
       /\ committedPos' = CommitPos(committedPos, <<items[1].off>>, ok)
       /\ Handled(Kind(~ok, "commit"))
  /\ pc' = "fetch"
  /\ items' = <<>>
  /\ UNCHANGED <<variant, log, idx, ctxDone, backoff, storeLog,
                 okWrites, result, storeVars, httpVars, depthVars, queryVars>>

\* The process shuts down: the context passed to Run is cancelled.
Cancel ==
  /\ pc \notin {"off", "returned"}
  /\ ~ctxDone
  /\ ctxDone' = TRUE
  /\ UNCHANGED <<variant, log, idx, pc, items, backoff, commitLog,
                 committedPos, storeLog, okWrites, result, failures, logged, metered, storeVars, httpVars, depthVars, queryVars>>

ConsumerStep ==
  \/ BFetchMessage \/ BFetchReturn \/ BFetchError \/ BRunFetchErr \/ BSleep
  \/ BProcess \/ BInsert \/ BCommit
  \/ SFetchMessage \/ SFetchError \/ SRunFetchErr \/ SSleep
  \/ SHandle \/ SInsert \/ SCommit

IngestNext == ConsumerStep \/ Cancel

IngestSpec == IngestInit /\ [][IngestNext]_vars

\* The Go scheduler keeps running the consumer goroutine.
IngestFairSpec == IngestSpec /\ WF_vars(ConsumerStep)

(* ------------------------- ingest: properties -------------------------- *)
Ascending(s) == \A i \in 1..Len(s) : \A j \in 1..Len(s) : i < j => s[i] < s[j]

\* Offsets of the items the consumer still holds.
Held == {items[i].off : i \in 1..Len(items)}

\* Offsets whose insert call returned an error.
FailedWrites == Range(storeLog) \ okWrites

\* C1: at-least-once across batches: every parseable message whose offset is
\* below the committed position of the group has been written by an insert
\* call that returned nil.
C1_AtLeastOnce ==
  \A o \in 0..(committedPos - 1) :
    (~UnmarshalErr(o)) => (o \in okWrites /\ HasId(rows, MsgAt(o).id))

\* C2: offset safety inside one step: every valid message passed to
\* CommitMessages was covered by an insert that returned nil, so the valid
\* messages of a step whose insert failed are never passed to CommitMessages.
C2_OffsetSafety ==
  \A i \in 1..Len(commitLog) :
    (~UnmarshalErr(commitLog[i])) => commitLog[i] \in okWrites

\* A valid message was committed after its insert, and the valid messages of
\* a failed insert were left uncommitted.
C2_Witness ==
  /\ \E i \in 1..Len(commitLog) : ~UnmarshalErr(commitLog[i])
  /\ \E o \in FailedWrites : o \notin Range(commitLog)
  /\ pc = "fetch"

\* C3: retry on write: the messages of a failed insert stay uncommitted until
\* they are stored: no commit of a later successful batch moves the committed
\* position past a message whose insert failed and whose report is not stored.
C3_FailedBatchNotSkipped ==
  [][(pc = "commit" /\ committedPos' > committedPos) =>
       (\A o \in FailedWrites :
          committedPos' <= o \/ HasId(rows', MsgAt(o).id))]_vars

\* C4: poison pill: every unparseable message the consumer has fetched and
\* no longer holds was passed to CommitMessages and never to the store.
C4_PoisonPillCommitted ==
  \A o \in 0..(idx - 1) :
    (UnmarshalErr(o) /\ o \notin Held) =>
      (o \in Range(commitLog) /\ o \notin Range(storeLog))

\* C9: shutdown: once the context is cancelled Run eventually returns, and
\* the value it returns is nil.
C9_ShutdownReturnsNil ==
  ctxDone ~> (pc = "returned" /\ result = "nil")

\* Run returned nil after a cancellation, with messages still unread in the
\* partition and after a failed insert.
C9_Witness ==
  /\ pc = "returned" /\ result = "nil"
  /\ ctxDone
  /\ idx < Len(log)
  /\ FailedWrites # {}

\* C10: ordering within a partition: the offsets handed to the store and the
\* offsets passed to CommitMessages both appear in fetch order.
C10_FetchOrder ==
  Ascending(storeLog) /\ Ascending(commitLog)

\* C28: no fetched message is dropped by fetchBatch: while a batch is being
\* assembled every message FetchMessage has returned stays in the batch,
\* until fetchBatch hands the batch to Run and Run to processBatch, also
\* when a later FetchMessage fails.
C28_NoFetchedMessageDropped ==
  [][(variant = "batch" /\ pc = "fetch") => Held \subseteq Held']_vars

\* C34: fetchBatch returns at most batchSize items, one item per fetched
\* message in fetch order, a message that fails to parse staying in its
\* position with its parse error; with the parent context cancelled it
\* returns what it has with a nil error; and an empty batch is not handed to
\* processBatch, so no storage call and no commit follows it.
C34_FetchBatch ==
  [][(variant = "batch" /\ pc = "fetch") =>
       /\ Len(items') <= BatchSize
       /\ items' = items \o [i \in 1..(idx' - idx) |-> Item(idx + i - 1)]
       /\ ctxDone => pc' # "fetcherr"
       /\ Len(items') = 0 =>
            /\ pc' \in {"fetch", "fetcherr", "returned"}
            /\ storeLog' = storeLog /\ commitLog' = commitLog]_vars

\* Run has returned only after the context was cancelled, and a step that
\* handled a failure under a live context left Run inside its loop.
StopsOnlyOnCancellation ==
  /\ pc = "returned" => ctxDone
  /\ (failures # {} /\ ~ctxDone) => pc \in {"sleep", "fetch", "insert"}

Reports == [id : Ids, v : 1..MaxVals]

\* Some report of the call names an id that table t holds with other field
\* values.
Reobserves(t, rs) ==
  \E i \in 1..Len(rs) : \E j \in 1..Len(t) :
    t[j].id = rs[i].id /\ t[j].v # rs[i].v

StoreInit == IngestIdle /\ StoreIdle /\ HttpIdle /\ DepthIdle /\ QueryIdle

\* A caller invokes Store.InsertStormReport(report).
CallInsertStormReport ==
  \E r \in Reports, dbUp \in BOOLEAN :
    LET res == InsertStormReport(rows, r, dbUp)
    IN /\ (~res.err) => okReports + 1 <= MaxSent
       /\ rows' = res.rows
       /\ insertedIds' = IF res.err THEN insertedIds ELSE insertedIds \cup {r.id}
       /\ okReports' = IF res.err THEN okReports ELSE okReports + 1
       /\ reobserved' = (reobserved \/ (~res.err /\ Reobserves(rows, <<r>>)))
       /\ lastErr' = IF res.err THEN "err" ELSE "nil"
       /\ lastDbUp' = dbUp
       /\ UNCHANGED <<ingestVars, httpVars, depthVars, queryVars>>

\* A caller invokes Store.InsertStormReports(reports).
CallInsertStormReports ==
  \E rs \in SeqsUpTo(Reports, MaxBatchArg), dbUp \in BOOLEAN :
    LET res == InsertStormReports(rows, rs, dbUp)
    IN /\ (~res.err) => okReports + Len(rs) <= MaxSent
       /\ rows' = res.rows
       /\ insertedIds' = IF res.err THEN insertedIds
                         ELSE insertedIds \cup {rs[i].id : i \in 1..Len(rs)}
       /\ okReports' = IF res.err THEN okReports ELSE okReports + Len(rs)
       /\ reobserved' = (reobserved \/ (~res.err /\ Reobserves(rows, rs)))
       /\ lastErr' = IF res.err THEN "err" ELSE "nil"
       /\ lastDbUp' = dbUp
       /\ UNCHANGED <<ingestVars, httpVars, depthVars, queryVars>>

StoreNext == CallInsertStormReport \/ CallInsertStormReports

StoreSpec == StoreInit /\ [][StoreNext]_vars

\* C5: idempotent upsert: the number of stored rows equals the number of
\* distinct ids passed to insert calls that returned nil, and a call made
\* while storage is reachable returns nil, whatever ids are already stored.
C5_IdempotentUpsert ==
  /\ Len(rows) = Cardinality(insertedIds)
  /\ (lastErr # "none" /\ lastDbUp) => lastErr = "nil"

\* More reports were accepted than there are distinct ids: repeated ids were
\* absorbed, and the last call succeeded.
C5_Witness ==
  /\ okReports > Len(rows)
  /\ Len(rows) >= 1
  /\ lastErr = "nil"

(* -------------------------- ConcurrencyLimit --------------------------- *)
Reqs == 1..MaxReqs

\* r.Handle("/query", srv) and r.Get("/healthz", LivenessHandler()), both
\* registered on the router that uses ConcurrencyLimit.
Routes == {"/query", "/healthz"}

BusyMessage == "server busy, try again"

\* select { case sem <- struct{}{}: ... default: ... } taking one slot more.
TryAcquireOneMore(held, cap) == held <= cap

\* select { case sem <- struct{}{}: ... default: ... } keeping one slot back.
TryAcquireOneLess(held, cap) == held < cap - 1

\* select { case sem <- struct{}{}: ... default: ... }: the send on the
\* buffered channel proceeds iff the buffer is not full.
TryAcquire(held, cap) == held < cap

\* A handler that leaves without the deferred receive.
ReleaseSkipped(held) == held

\* defer func() { <-sem }()
Release(held) == held - 1

\* ConcurrencyLimit(limit): sem := make(chan struct{}, limit).
HttpInit ==
  /\ limit \in 1..MaxLimit
  /\ route \in [Reqs -> Routes]
  /\ sem = 0
  /\ reqState = [r \in Reqs |-> "new"]
  /\ slotsSeen = [r \in Reqs |-> 0]
  /\ handlerCalls = [r \in Reqs |-> 0]
  /\ status = [r \in Reqs |-> 0]
  /\ body = [r \in Reqs |-> ""]
  /\ IngestIdle /\ StoreIdle /\ DepthIdle /\ QueryIdle

\* The middleware receives request r: it takes a slot and calls the wrapped
\* handler, or answers 503 at once.
Arrive(r) ==
  /\ reqState[r] = "new"
  /\ slotsSeen' = [slotsSeen EXCEPT ![r] = sem]
  /\ IF TryAcquire(sem, limit)
     THEN /\ sem' = sem + 1
          /\ reqState' = [reqState EXCEPT ![r] = "serving"]
          /\ handlerCalls' = [handlerCalls EXCEPT ![r] = @ + 1]
          /\ UNCHANGED <<status, body>>
     ELSE /\ reqState' = [reqState EXCEPT ![r] = "rejected"]
          /\ status' = [status EXCEPT ![r] = StatusServiceUnavailable]
          /\ body' = [body EXCEPT ![r] = BusyMessage]
          /\ UNCHANGED <<sem, handlerCalls>>
  /\ UNCHANGED <<limit, route, ingestVars, storeVars, depthVars, queryVars>>

\* next.ServeHTTP returns; the deferred receive frees the slot.
HandlerReturn(r) ==
  /\ reqState[r] = "serving"
  /\ reqState' = [reqState EXCEPT ![r] = "done"]
  /\ status' = [status EXCEPT ![r] = StatusOK]
  /\ sem' = Release(sem)
  /\ UNCHANGED <<limit, route, slotsSeen, handlerCalls, body, ingestVars,
                 storeVars, depthVars, queryVars>>

\* next.ServeHTTP panics (a resolver; LivenessHandler has nothing that
\* panics); the deferred receive still frees the slot.
HandlerPanic(r) ==
  /\ reqState[r] = "serving"
  /\ route[r] = "/query"
  /\ reqState' = [reqState EXCEPT ![r] = "panicked"]
  /\ sem' = Release(sem)
  /\ UNCHANGED <<limit, route, slotsSeen, handlerCalls, status, body,
                 ingestVars, storeVars, depthVars, queryVars>>

HttpNext == \E r \in Reqs : Arrive(r) \/ HandlerReturn(r) \/ HandlerPanic(r)

HttpSpec == HttpInit /\ [][HttpNext]_vars

Serving == {r \in Reqs : reqState[r] = "serving"}

Admitted == {r \in Reqs : reqState[r] \in {"serving", "done", "panicked"}}

\* C6: concurrency budget: the number of requests executing the wrapped
\* handler at the same time never exceeds limit.
C6_ConcurrencyBudget == Cardinality(Serving) <= limit

\* The budget is exhausted and a further request was turned away.
C6_Witness ==
  /\ Cardinality(Serving) = limit
  /\ \E r \in Reqs : reqState[r] = "rejected"

\* C35: no slot leak: the slots held are exactly those of the requests inside
\* the wrapped handler, so once every request in flight has finished all
\* limit slots can be taken again; a request gives its slot back in the step
\* in which its handler returns or panics, a finished or rejected request
\* never changes state again, and a rejection leaves the slots alone.
C35_NoSlotLeak ==
  /\ [](/\ sem = Cardinality(Serving)
        /\ Serving = {} =>
             \A k \in 0..(limit - 1) : TryAcquire(sem + k, limit))
  /\ [][\A r \in Reqs :
          /\ (reqState[r] = "serving" /\ reqState'[r] # "serving") =>
               /\ reqState'[r] \in {"done", "panicked"}
               /\ sem' = sem - 1
          /\ reqState[r] \in {"done", "panicked", "rejected"} =>
               reqState'[r] = reqState[r]
          /\ (reqState[r] = "new" /\ reqState'[r] = "rejected") =>
               sem' = sem]_vars

\* One request panicked, one was rejected while it ran, a third was admitted
\* afterwards and returned; nothing is in flight and no slot is held.
C35_Witness ==
  /\ \E r \in Reqs : reqState[r] = "panicked"
  /\ \E r \in Reqs : reqState[r] = "rejected" /\ slotsSeen[r] = limit
  /\ \E r \in Reqs : reqState[r] = "done"
  /\ Serving = {} /\ sem = 0

\* C7: busy response: a request that arrived while all limit slots were held
\* was answered with 503 and the busy message without the wrapped handler
\* being invoked, and it is in no waiting state; a request that arrived while
\* a slot was free was admitted.
C7_BusyResponse ==
  \A r \in Reqs :
    reqState[r] # "new" =>
      /\ slotsSeen[r] >= limit =>
           /\ reqState[r] = "rejected"
           /\ status[r] = StatusServiceUnavailable
           /\ body[r] = BusyMessage
           /\ handlerCalls[r] = 0
      /\ slotsSeen[r] < limit =>
           /\ r \in Admitted
           /\ handlerCalls[r] = 1
           /\ body[r] = ""

\* One request was turned away with all slots held while another, which had
\* arrived with a slot free, has been served.
C7_Witness ==
  /\ \E r \in Reqs : reqState[r] = "rejected" /\ slotsSeen[r] = limit
  /\ \E r \in Reqs : reqState[r] = "done" /\ slotsSeen[r] = limit - 1

(* ----------------------------- DepthLimit ------------------------------ *)
\* Field names, as the characters the code inspects.
NameA == <<"a">>
NameUnderscoreA == <<"_", "a">>
NameTypename == <<"_", "_", "t">>
NameSchema == <<"_", "_", "s">>

\* ast.Field, ast.InlineFragment and ast.FragmentSpread; def is FALSE for a
\* fragment spread whose Definition is nil.
Field(name, sel) == [kind |-> "Field", name |-> name, def |-> TRUE, sel |-> sel]
InlineFragment(sel) ==
  [kind |-> "InlineFragment", name |-> <<>>, def |-> TRUE, sel |-> sel]
FragmentSpread(def, sel) ==
  [kind |-> "FragmentSpread", name |-> <<>>, def |-> def, sel |-> sel]

SetMax(S) == IF S = {} THEN 0 ELSE CHOOSE m \in S : \A x \in S : x <= m

RECURSIVE queryDepthTransparent(_)
\* A depth that looks through fragments: only fields add a level.
queryDepthTransparent(selSet) ==
  IF Len(selSet) = 0 THEN 0
  ELSE SetMax({ IF selSet[i].kind = "Field"
                THEN 1 + queryDepthTransparent(selSet[i].sel)
                ELSE queryDepthTransparent(selSet[i].sel) : i \in 1..Len(selSet) })

RECURSIVE queryDepth(_)
\* queryDepth: 0 for an empty selection set, else 1 + the deepest child.
queryDepth(selSet) ==
  IF Len(selSet) = 0 THEN 0
  ELSE 1 + SetMax({ IF selSet[i].kind = "FragmentSpread" /\ ~selSet[i].def
                    THEN 0
                    ELSE queryDepth(selSet[i].sel) : i \in 1..Len(selSet) })

\* isIntrospectionQuery: some top-level field has a name starting with "__".
isIntrospectionQuery(selSet) ==
  \E i \in 1..Len(selSet) :
    /\ selSet[i].kind = "Field"
    /\ Len(selSet[i].name) >= 2
    /\ selSet[i].name[1] = "_"
    /\ selSet[i].name[2] = "_"

\* The comparison of InterceptOperation, rejecting at the limit itself.
ExceedsAtLimit(depth, max) == depth >= max

\* The comparison of InterceptOperation: depth > d.MaxDepth.
Exceeds(depth, max) == depth > max

DepthErrorText == "exceeds maximum allowed depth"

\* DepthLimit.InterceptOperation: what is answered for the operation.
InterceptOperation(max, selSet) ==
  IF isIntrospectionQuery(selSet)
  THEN [kind |-> "next", text |-> "", depth |-> 0, max |-> 0]
  ELSE IF Exceeds(queryDepth(selSet), max)
  THEN [kind |-> "error", text |-> DepthErrorText,
        depth |-> queryDepth(selSet), max |-> max]
  ELSE [kind |-> "next", text |-> "", depth |-> 0, max |-> 0]

RECURSIVE NodeCount(_)
NodeCount(selSet) ==
  IF Len(selSet) = 0 THEN 0
  ELSE 1 + NodeCount(Head(selSet).sel) + NodeCount(Tail(selSet))

Leaves ==
  {Field(n, <<>>) : n \in {NameA, NameUnderscoreA, NameTypename}}
    \cup {FragmentSpread(FALSE, <<>>)}

Wrappers(sel) ==
  {Field(NameA, sel), Field(NameSchema, sel), InlineFragment(sel),
   FragmentSpread(TRUE, sel)}

\* DepthLimit{MaxDepth: n}; Validate rejects MaxDepth < 1.
DepthInit ==
  /\ maxDepth \in 1..MaxDepthBound
  /\ opSel = <<>>
  /\ response = NoResponse
  /\ nextCalls = 0
  /\ IngestIdle /\ StoreIdle /\ HttpIdle /\ QueryIdle

\* The client adds a selection without children to the operation.
AddSelection ==
  /\ response.kind = "none"
  /\ NodeCount(opSel) < MaxNodes
  /\ \E n \in Leaves : opSel' = Append(opSel, n)
  /\ UNCHANGED <<maxDepth, response, nextCalls, ingestVars, storeVars, httpVars, queryVars>>

\* The client nests the selections written so far under a field, an inline
\* fragment or a fragment spread.
NestSelection ==
  /\ response.kind = "none"
  /\ opSel # <<>>
  /\ NodeCount(opSel) < MaxNodes
  /\ \E n \in Wrappers(opSel) : opSel' = <<n>>
  /\ UNCHANGED <<maxDepth, response, nextCalls, ingestVars, storeVars, httpVars, queryVars>>

\* The server runs DepthLimit.InterceptOperation on the operation.
Intercept ==
  /\ response.kind = "none"
  /\ response' = InterceptOperation(maxDepth, opSel)
  /\ nextCalls' = IF response'.kind = "next" THEN nextCalls + 1 ELSE nextCalls
  /\ UNCHANGED <<maxDepth, opSel, ingestVars, storeVars, httpVars, queryVars>>

DepthNext == AddSelection \/ NestSelection \/ Intercept

DepthSpec == DepthInit /\ [][DepthNext]_vars

RECURSIVE HasChain(_, _)
\* There are n selections nested one inside the other, whatever their kind.
HasChain(selSet, n) ==
  \/ n = 0
  \/ \E i \in 1..Len(selSet) : HasChain(selSet[i].sel, n - 1)

RECURSIVE HasFieldChain(_, _)
\* There are n fields nested one inside the other, fragments looked through.
HasFieldChain(selSet, n) ==
  \/ n = 0
  \/ \E i \in 1..Len(selSet) :
       IF selSet[i].kind = "Field"
       THEN HasFieldChain(selSet[i].sel, n - 1)
       ELSE HasFieldChain(selSet[i].sel, n)

Rejected ==
  /\ response.kind = "error"
  /\ response.text = DepthErrorText
  /\ nextCalls = 0

PassedOn == response.kind = "next" /\ nextCalls = 1

Answered == response.kind # "none" /\ ~isIntrospectionQuery(opSel)

\* C8 (as stated): with the depth of an operation taken as its longest chain
\* of nested fields, a non-introspection operation is rejected, the next
\* handler never called, iff that depth exceeds MaxDepth.
C8_FieldDepthBudget ==
  Answered =>
    IF HasFieldChain(opSel, maxDepth + 1) THEN Rejected ELSE PassedOn

\* C8 (amended): with the depth of an operation taken as its longest chain of
\* nested selections, an inline fragment or a fragment spread counting as
\* one level like a field, a non-introspection operation is rejected with
\* "exceeds maximum allowed depth", the next handler never called, iff that
\* depth exceeds MaxDepth; depth exactly MaxDepth is passed on.
C8_DepthBudget ==
  Answered =>
    IF HasChain(opSel, maxDepth + 1) THEN Rejected ELSE PassedOn

\* An operation of depth MaxDepth + 1 was rejected.
C8_Witness ==
  /\ Answered
  /\ HasChain(opSel, maxDepth + 1)
  /\ ~HasChain(opSel, maxDepth + 2)
  /\ Rejected

RECURSIVE Flattened(_)
\* The selection with every inline fragment and fragment spread replaced by
\* the fields it contains.
Flattened(selSet) ==
  IF Len(selSet) = 0 THEN <<>>
  ELSE LET h == Head(selSet)
       IN (IF h.kind = "Field"
           THEN <<Field(h.name, Flattened(h.sel))>>
           ELSE Flattened(h.sel)) \o Flattened(Tail(selSet))

RECURSIVE FragmentLevels(_)
\* The largest number of fragments nested one inside the other.
FragmentLevels(selSet) ==
  IF Len(selSet) = 0 THEN 0
  ELSE SetMax({ (IF selSet[i].kind = "Field" THEN 0 ELSE 1)
                  + FragmentLevels(selSet[i].sel) : i \in 1..Len(selSet) })

\* C36 (as stated): fragments are transparent to the depth: queryDepth of the
\* operation equals queryDepth of the operation with its fragments replaced
\* by their fields, and an operation with exactly MaxDepth levels of nested
\* fields is passed on, with or without fragments.
C36_FragmentsTransparent ==
  /\ queryDepth(opSel) = queryDepth(Flattened(opSel))
  /\ (Answered /\ queryDepth(Flattened(opSel)) = maxDepth) => PassedOn

\* C36 (amended): a fragment is a level of its own: queryDepth of the
\* operation is at least queryDepth of the operation with its fragments
\* replaced by their fields and exceeds it by at most the number of fragments
\* nested in one another; an inline fragment or a defined fragment spread
\* around the whole operation adds exactly one; and an operation with exactly
\* MaxDepth levels of nested fields is passed on when no chain of selections
\* is longer than MaxDepth and rejected when fragments make one longer.
C36_FragmentsAddLevels ==
  /\ queryDepth(Flattened(opSel)) <= queryDepth(opSel)
  /\ queryDepth(opSel) <= queryDepth(Flattened(opSel)) + FragmentLevels(opSel)
  /\ (Len(opSel) = 1 /\ opSel[1].kind # "Field" /\ opSel[1].def) =>
       queryDepth(opSel) = 1 + queryDepth(opSel[1].sel)
  /\ (Answered /\ queryDepth(Flattened(opSel)) = maxDepth) =>
       IF HasChain(opSel, maxDepth + 1) THEN Rejected ELSE PassedOn

\* An operation with exactly MaxDepth levels of fields, written inside an
\* inline fragment, was rejected.
C36_Witness ==
  /\ Answered
  /\ Len(opSel) = 1 /\ opSel[1].kind = "InlineFragment"
  /\ queryDepth(Flattened(opSel)) = maxDepth
  /\ queryDepth(opSel) = maxDepth + 1
  /\ Rejected

(* ------------------------- backoff: properties ------------------------- *)
\* Run's fetch step (FetchMessage in Consumer, fetchBatch in BatchConsumer)
\* returned without an error.
FetchSucceeded ==
  /\ pc = "fetch" /\ pc' # "fetcherr" /\ ctxDone' = ctxDone
  /\ (variant = "batch" => idx' = idx)

\* The sleep after a fetch error ended with the timer.
SleepElapsed == pc = "sleep" /\ pc' = "fetch"

\* The delays the retry loop can hold.
BackoffLadder == {200, 400, 800, 1600, 3200, 5000}

C11_Range ==
  /\ backoff \in BackoffLadder
  /\ (pc = "sleep" /\ ctxDone) => ENABLED (ConsumerStep /\ pc' = "returned")

C11_Step ==
  /\ SleepElapsed =>
       backoff' = (IF backoff * 2 <= 5000 THEN backoff * 2 ELSE 5000)
  /\ FetchSucceeded => backoff' = 200
  /\ (backoff' # backoff) => (SleepElapsed \/ FetchSucceeded)
  /\ (pc = "sleep" /\ pc' = "returned") => (ctxDone /\ result' = "nil")

C12_StoredRowsImmutable ==
  [][/\ Len(rows') >= Len(rows)
     /\ \A i \in 1..Len(rows) : rows'[i] = rows[i]
     /\ \A j \in (Len(rows) + 1)..Len(rows') : ~HasId(rows, rows'[j].id)
     /\ \A j \in 1..Len(rows') : \A k \in 1..Len(rows') :
          rows'[j].id = rows'[k].id => j = k
     /\ lastDbUp' => lastErr' = "nil"]_vars

\* A call that returned nil carried a stored id with other field values.
C12_Witness ==
  /\ reobserved /\ lastErr = "nil"
  /\ Len(rows) >= 2

(* --------------------------- liveness probe ---------------------------- *)
\* Requests that have been answered.
Replied == {r \in Reqs : reqState[r] \in {"done", "rejected"}}

\* C13: liveness probe: every answered GET /healthz was answered with 200,
\* whatever the number of GraphQL requests in flight.
C13_HealthzAlwaysOK ==
  \A r \in Replied : route[r] = "/healthz" => status[r] = StatusOK

(* ------------------------ introspection bypass ------------------------- *)
\* Top-level fields of the operation that are not introspection fields.
DataFields ==
  {i \in 1..Len(opSel) :
     opSel[i].kind = "Field" /\ ~isIntrospectionQuery(<<opSel[i]>>)}

\* C14: the depth bypass is limited to introspection: an intercepted
\* operation with a top-level data field nested deeper than MaxDepth is
\* rejected, also when a top-level "__" field stands next to it.
C14_BypassOnlyIntrospection ==
  (response.kind # "none"
     /\ \E i \in DataFields : HasChain(<<opSel[i]>>, maxDepth + 1))
    => Rejected

(* ---------------------------- query inputs ----------------------------- *)
\* A nil pointer or an SQL NULL is the empty sequence; a value v is <<v>>.
Nil == <<>>
Some(v) == <<v>>
IsNil(p) == p = <<>>
Deref(p) == p[1]

\* model.EventType and model.Severity values.
EventTypeEnum == {"HAIL", "WIND", "TORNADO"}
SeverityEnum == {"MINOR", "MODERATE", "SEVERE", "EXTREME"}

\* EventType.DBValue / Severity.DBValue: strings.ToLower(string(e)).
DBValue(e) ==
  CASE e = "HAIL" -> "hail"
    [] e = "WIND" -> "wind"
    [] e = "TORNADO" -> "tornado"
    [] e = "MINOR" -> "minor"
    [] e = "MODERATE" -> "moderate"
    [] e = "SEVERE" -> "severe"
    [] e = "EXTREME" -> "extreme"
    [] OTHER -> e

\* eventTypeDBValues / severityDBValues
eventTypeDBValues(types) == [i \in 1..Len(types) |-> DBValue(types[i])]
severityDBValues(sevs) == [i \in 1..Len(sevs) |-> DBValue(sevs[i])]

\* Query protection limits.
MaxEventTypeFilters == 3
MaxPageSize == 20
MaxRadiusMiles == 200
DefaultRadiusMiles == 20

\* Some type occurs twice in the eventTypeFilters.
DuplicateEventType(etf) ==
  \E i \in 1..Len(etf) : \E j \in 1..Len(etf) :
    i < j /\ etf[i].eventType = etf[j].eventType

\* The time range test passing when to equals from.
TimeRangeInvalidBefore(f) == f.to < f.from

\* !filter.TimeRange.To.After(filter.TimeRange.From)
TimeRangeInvalid(f) == ~(f.to > f.from)

\* The radius test rejecting the maximum itself.
RadiusExceedsAtMax(r) == r >= MaxRadiusMiles

\* radius > MaxRadiusMiles, for near and for an eventTypeFilters entry.
RadiusExceeds(r) == r > MaxRadiusMiles

\* The limit test passing one above the maximum.
LimitExceedsOffByOne(l) == l > MaxPageSize + 1

\* *filter.Limit > MaxPageSize
LimitExceeds(l) == l > MaxPageSize

\* fmt.Errorf of ValidateFilter: the text, the entry index and event type
\* formatted into it (-1 and "" if none), and the maximum it quotes.
Errorf(text, index, eventType, max) ==
  [text |-> text, index |-> index, eventType |-> eventType, max |-> max]

\* The near radius defaulted when it is omitted.
DefaultRadius(f) ==
  IF ~IsNil(f.near) /\ IsNil(Deref(f.near).radiusMiles)
  THEN [f EXCEPT !.near =
          Some([Deref(f.near) EXCEPT !.radiusMiles = Some(DefaultRadiusMiles)])]
  ELSE f

\* The loop of ValidateFilter without the seen map.
EntryErrorNoSeen(etf, i) ==
  IF ~IsNil(etf[i].radiusMiles) /\ RadiusExceeds(Deref(etf[i].radiusMiles))
  THEN Errorf("eventTypeFilters[%d]: radiusMiles exceeds maximum of %.0f",
              i - 1, "", MaxRadiusMiles)
  ELSE NoError

\* The error of entry i of eventTypeFilters in the loop of ValidateFilter:
\* a type seen in an earlier entry, else a radius above the maximum.
EntryError(etf, i) ==
  IF \E j \in 1..(i - 1) : etf[j].eventType = etf[i].eventType
  THEN Errorf("eventTypeFilters[%d]: duplicate eventType %s", i - 1,
              etf[i].eventType, 0)
  ELSE IF ~IsNil(etf[i].radiusMiles)
          /\ RadiusExceeds(Deref(etf[i].radiusMiles))
  THEN Errorf("eventTypeFilters[%d]: radiusMiles exceeds maximum of %.0f",
              i - 1, "", MaxRadiusMiles)
  ELSE NoError

\* ValidateFilter: the checks in the order of the code, the first failing
\* one returning its error; msg is that error (NoError for nil), err tells
\* whether there is one, and filter is the filter as the call leaves it,
\* with the defaults that were applied before the return.
ValidateFilter(f) ==
  LET f1 == DefaultRadius(f)
      etf == f.eventTypeFilters
      bad == {i \in 1..Len(etf) : EntryError(etf, i) # NoError}
      first == CHOOSE i \in bad : \A j \in bad : i <= j
      msg ==
        IF TimeRangeInvalid(f)
        THEN Errorf("timeRange.to must be after timeRange.from", -1, "", 0)
        ELSE IF ~IsNil(f1.near)
                /\ RadiusExceeds(Deref(Deref(f1.near).radiusMiles))
        THEN Errorf("near.radiusMiles exceeds maximum of %.0f", -1, "",
                    MaxRadiusMiles)
        ELSE IF Len(etf) > MaxEventTypeFilters
        THEN Errorf("at most %d eventTypeFilters allowed", -1, "",
                    MaxEventTypeFilters)
        ELSE IF bad # {} THEN EntryError(etf, first)
        ELSE IF ~IsNil(f.limit) /\ LimitExceeds(Deref(f.limit))
        THEN Errorf("limit exceeds maximum of %d", -1, "", MaxPageSize)
        ELSE NoError
  IN [err |-> msg # NoError,
      msg |-> msg,
      filter |-> IF TimeRangeInvalid(f) THEN f
                 ELSE IF msg # NoError \/ ~IsNil(f.limit) THEN f1
                 ELSE [f1 EXCEPT !.limit = Some(MaxPageSize)]]

(* --------------------------- filter compiler --------------------------- *)
\* One predicate of the WHERE clause: its SQL shape, the index of its first
\* positional parameter, and for a parenthesised group its members.
Clause(kind, p) == [kind |-> kind, p |-> p, parts |-> <<>>]
Group(kind, parts) == [kind |-> kind, p |-> 0, parts |-> parts]

\* where = append(where, "<kind> $n"); args = append(args, arg); n++
AddClause(acc, cond, kind, arg) ==
  IF cond
  THEN [where |-> Append(acc.where, Clause(kind, acc.idx)),
        args |-> Append(acc.args, arg), idx |-> acc.idx + 1]
  ELSE acc

\* buildBoundingBox returning an index one short of the next free one.
buildBoundingBoxShortStep(lat, lon, radiusMiles, n) ==
  [where |-> <<Clause("geo BETWEEN", n)>>,
   args |-> <<lat - radiusMiles, lat + radiusMiles,
              lon - radiusMiles, lon + radiusMiles>>,
   idx |-> n + 3]

\* buildBoundingBox, in a plane with both axes in miles: the deltas of
\* latitude and longitude are the radius itself.
buildBoundingBox(lat, lon, radiusMiles, n) ==
  [where |-> <<Clause("geo BETWEEN", n)>>,
   args |-> <<lat - radiusMiles, lat + radiusMiles,
              lon - radiusMiles, lon + radiusMiles>>,
   idx |-> n + 4]

\* buildHaversine: the distance clause over $n .. $n+3.
buildHaversine(lat, lon, radiusMiles, n) ==
  [clause |-> Clause("distance <=", n),
   args |-> <<lat, lon, lat, radiusMiles>>,
   nextIdx |-> n + 4]

\* buildGeoClause: bounding box, then haversine; nothing without a radius.
buildGeoClause(lat, lon, radiusMiles, n) ==
  IF IsNil(radiusMiles) THEN [where |-> <<>>, args |-> <<>>, idx |-> n]
  ELSE LET bb == buildBoundingBox(lat, lon, Deref(radiusMiles), n)
           hav == buildHaversine(lat, lon, Deref(radiusMiles), bb.idx)
       IN [where |-> Append(bb.where, hav.clause),
           args |-> bb.args \o hav.args,
           idx |-> hav.nextIdx]

\* typeCondition of an eventTypeFilters entry without the fall-back to the
\* global values.
OverrideConditionNoFallback(f, tf) ==
  [eventType |-> tf.eventType,
   severity |-> tf.severity,
   minMag |-> tf.minMagnitude,
   radiusMiles |-> tf.radiusMiles]

\* typeCondition of an eventTypeFilters entry with the global severities
\* added to its own.
OverrideConditionCombined(f, tf) ==
  [eventType |-> tf.eventType,
   severity |-> tf.severity \o f.severity,
   minMag |-> IF ~IsNil(tf.minMagnitude) THEN tf.minMagnitude
              ELSE f.minMagnitude,
   radiusMiles |-> IF ~IsNil(tf.radiusMiles) THEN tf.radiusMiles
                   ELSE IF ~IsNil(f.near) THEN Deref(f.near).radiusMiles
                   ELSE Nil]

\* typeCondition of an eventTypeFilters entry: its own values, the global
\* ones where it has none.
OverrideCondition(f, tf) ==
  [eventType |-> tf.eventType,
   severity |-> IF Len(tf.severity) > 0 THEN tf.severity ELSE f.severity,
   minMag |-> IF ~IsNil(tf.minMagnitude) THEN tf.minMagnitude
              ELSE f.minMagnitude,
   radiusMiles |-> IF ~IsNil(tf.radiusMiles) THEN tf.radiusMiles
                   ELSE IF ~IsNil(f.near) THEN Deref(f.near).radiusMiles
                   ELSE Nil]

\* typeCondition of an eventTypes element that has no override.
DefaultCondition(f, et) ==
  [eventType |-> et,
   severity |-> f.severity,
   minMag |-> f.minMagnitude,
   radiusMiles |-> IF ~IsNil(f.near) THEN Deref(f.near).radiusMiles ELSE Nil]

\* collectTypeConditions without the overrideSet test of the second loop.
collectTypeConditionsAllDefaults(f) ==
  [i \in 1..Len(f.eventTypeFilters) |->
     OverrideCondition(f, f.eventTypeFilters[i])]
    \o [i \in 1..Len(f.eventTypes) |-> DefaultCondition(f, f.eventTypes[i])]

\* collectTypeConditions: the overrides in their order, then the eventTypes
\* that are not overridden, in their order.
collectTypeConditions(f) ==
  LET etf == f.eventTypeFilters
      overrideSet == {etf[i].eventType : i \in 1..Len(etf)}
      rest == SelectSeq(f.eventTypes, LAMBDA et : et \notin overrideSet)
  IN [i \in 1..Len(etf) |-> OverrideCondition(f, etf[i])]
       \o [i \in 1..Len(rest) |-> DefaultCondition(f, rest[i])]

\* maxRadius taking the radius of the first condition.
maxRadiusOfFirst(conditions) ==
  IF conditions # <<>> /\ ~IsNil(conditions[1].radiusMiles)
  THEN Deref(conditions[1].radiusMiles) ELSE 0

\* maxRadius: the largest radius of the conditions, 0 if none has one.
maxRadius(conditions) ==
  SetMax({0} \cup {Deref(conditions[i].radiusMiles) :
                     i \in {j \in 1..Len(conditions) :
                              ~IsNil(conditions[j].radiusMiles)}})

\* buildSingleTypeCondition: (event_type = $n [AND severity] [AND magnitude]
\* [AND distance]).
buildSingleTypeCondition(tc, near, n) ==
  LET s0 == [where |-> <<>>, args |-> <<>>, idx |-> n]
      s1 == AddClause(s0, TRUE, "event_type =", DBValue(tc.eventType))
      s2 == AddClause(s1, Len(tc.severity) > 0, "measurement_severity = ANY",
                      severityDBValues(tc.severity))
      s3 == AddClause(s2, ~IsNil(tc.minMag), "measurement_magnitude >=",
                      IF IsNil(tc.minMag) THEN 0 ELSE Deref(tc.minMag))
      s4 == IF ~IsNil(near) /\ ~IsNil(tc.radiusMiles)
            THEN LET hav == buildHaversine(Deref(near).lat, Deref(near).lon,
                                           Deref(tc.radiusMiles), s3.idx)
                 IN [where |-> Append(s3.where, hav.clause),
                     args |-> s3.args \o hav.args,
                     idx |-> hav.nextIdx]
            ELSE s3
  IN [clause |-> Group("AND", s4.where), args |-> s4.args, idx |-> s4.idx]

RECURSIVE OrParts(_, _, _)
\* The loop of buildEventTypeConditions over the conditions.
OrParts(conditions, near, n) ==
  IF conditions = <<>> THEN [parts |-> <<>>, args |-> <<>>, idx |-> n]
  ELSE LET one == buildSingleTypeCondition(Head(conditions), near, n)
           more == OrParts(Tail(conditions), near, one.idx)
       IN [parts |-> <<one.clause>> \o more.parts,
           args |-> one.args \o more.args,
           idx |-> more.idx]

\* buildEventTypeConditions: the bounding box of the largest radius, then
\* one parenthesised OR of the per-type conditions.
buildEventTypeConditions(f, argsIn, n) ==
  LET conditions == collectTypeConditions(f)
      r == maxRadius(conditions)
      bb == IF ~IsNil(f.near) /\ r > 0
            THEN buildBoundingBox(Deref(f.near).lat, Deref(f.near).lon, r, n)
            ELSE [where |-> <<>>, args |-> <<>>, idx |-> n]
      ors == OrParts(conditions, f.near, bb.idx)
  IN [where |-> Append(bb.where, Group("OR", ors.parts)),
      args |-> argsIn \o bb.args \o ors.args,
      idx |-> ors.idx]

\* The time bounds with the two arguments exchanged.
TimeBoundsSwapped(f) ==
  AddClause(AddClause([where |-> <<>>, args |-> <<>>, idx |-> 1],
                      TRUE, "event_time >=", f.to),
            TRUE, "event_time <=", f.from)

\* buildWhereClause, first part: event_time >= $1 and event_time <= $2.
TimeBounds(f) ==
  AddClause(AddClause([where |-> <<>>, args |-> <<>>, idx |-> 1],
                      TRUE, "event_time >=", f.from),
            TRUE, "event_time <=", f.to)

\* buildWhereClause: the clauses, the arguments and the next free index.
buildWhereClause(f) ==
  LET s2 == TimeBounds(f)
      s3 == AddClause(s2, Len(f.states) > 0, "location_state = ANY", f.states)
      s4 == AddClause(s3, Len(f.counties) > 0, "location_county = ANY",
                      f.counties)
  IN IF Len(f.eventTypeFilters) > 0
     THEN LET etc == buildEventTypeConditions(f, s4.args, s4.idx)
          IN [where |-> s4.where \o etc.where, args |-> etc.args,
              idx |-> etc.idx]
     ELSE LET s5 == AddClause(s4, Len(f.eventTypes) > 0, "event_type = ANY",
                              eventTypeDBValues(f.eventTypes))
              s6 == AddClause(s5, Len(f.severity) > 0,
                              "measurement_severity = ANY",
                              severityDBValues(f.severity))
              s7 == AddClause(s6, ~IsNil(f.minMagnitude),
                              "measurement_magnitude >=",
                              IF IsNil(f.minMagnitude) THEN 0
                              ELSE Deref(f.minMagnitude))
          IN IF ~IsNil(f.near)
             THEN LET geo == buildGeoClause(Deref(f.near).lat, Deref(f.near).lon,
                                            Deref(f.near).radiusMiles, s7.idx)
                  IN [where |-> s7.where \o geo.where,
                      args |-> s7.args \o geo.args,
                      idx |-> geo.idx]
             ELSE s7

(* ---------------------------- query engine ----------------------------- *)
Square(x) == x * x

RECURSIVE Eval(_, _, _)
\* PostgreSQL's evaluation of one predicate on one row with the arguments a.
\* A comparison with NULL is not true; no predicate is negated, so NULL and
\* false select the same rows. The distance is taken in the plane.
Eval(c, a, row) ==
  CASE c.kind = "event_time >=" -> row.eventTime >= a[c.p]
    [] c.kind = "event_time <=" -> row.eventTime <= a[c.p]
    [] c.kind = "location_state = ANY" -> row.state \in Range(a[c.p])
    [] c.kind = "location_county = ANY" -> row.county \in Range(a[c.p])
    [] c.kind = "event_type = ANY" -> row.eventType \in Range(a[c.p])
    [] c.kind = "event_type =" -> row.eventType = a[c.p]
    [] c.kind = "measurement_severity = ANY" ->
         ~IsNil(row.severity) /\ Deref(row.severity) \in Range(a[c.p])
    [] c.kind = "measurement_magnitude >=" -> row.magnitude >= a[c.p]
    [] c.kind = "geo BETWEEN" ->
         /\ a[c.p] <= row.lat /\ row.lat <= a[c.p + 1]
         /\ a[c.p + 2] <= row.lon /\ row.lon <= a[c.p + 3]
    [] c.kind = "distance <=" ->
         (row.lat - a[c.p]) * (row.lat - a[c.p + 2])
           + Square(row.lon - a[c.p + 1]) <= Square(a[c.p + 3])
    [] c.kind = "AND" -> \A i \in 1..Len(c.parts) : Eval(c.parts[i], a, row)
    [] c.kind = "OR" -> \E i \in 1..Len(c.parts) : Eval(c.parts[i], a, row)

\* buildWhereSQL: the clauses joined with AND; no clause selects every row.
Matches(clauses, a, row) ==
  \A i \in 1..Len(clauses) : Eval(clauses[i], a, row)

(* ----------------------- filters and rows drawn ------------------------ *)
Times == 0..MaxTime
Magnitudes == 0..MaxMagnitude
Radii == {20 * k : k \in 0..MaxRadiusSteps}

\* *float64 / *int inputs.
Optional(S) == {Nil} \cup {Some(v) : v \in S}

\* A filter with the required time range only, as wide as the times drawn.
TimeOnlyFilter ==
  [from |-> 0, to |-> MaxTime,
   near |-> Nil, states |-> <<>>, counties |-> <<>>,
   eventTypes |-> <<>>, severity |-> <<>>, minMagnitude |-> Nil,
   eventTypeFilters |-> <<>>,
   sortBy |-> Nil, sortOrder |-> Nil, limit |-> Nil, offset |-> Nil]

\* model.EventTypeFilter naming a type and nothing else.
TypeOnly(t) ==
  [eventType |-> t, severity |-> <<>>, minMagnitude |-> Nil,
   radiusMiles |-> Nil]

Count(b) == IF b THEN 1 ELSE 0

RECURSIVE GivenIn(_)
\* Number of inputs given in the eventTypeFilters.
GivenIn(etf) ==
  IF etf = <<>> THEN 0
  ELSE 1 + Len(Head(etf).severity) + Count(~IsNil(Head(etf).minMagnitude))
         + Count(~IsNil(Head(etf).radiusMiles)) + GivenIn(Tail(etf))

\* Number of inputs the client has given beyond the widest time range.
Given(f) ==
  Count(f.from # 0) + Count(f.to # MaxTime) + Count(~IsNil(f.near))
    + Len(f.states) + Len(f.counties) + Len(f.eventTypes) + Len(f.severity)
    + Count(~IsNil(f.minMagnitude)) + GivenIn(f.eventTypeFilters)
    + Count(~IsNil(f.sortBy)) + Count(~IsNil(f.sortOrder))
    + Count(~IsNil(f.limit)) + Count(~IsNil(f.offset))

\* The filters obtained from f by giving one more input of the where clause:
\* a bound of the time range, near, states, counties, an eventTypes element,
\* severity, minMagnitude, a further eventTypeFilters entry, or an override
\* in the last entry.
WhereInputs(f) ==
  LET etf == f.eventTypeFilters
      k == Len(etf)
  IN {[f EXCEPT !.from = t] : t \in IF f.from = 0 THEN 1..MaxTime ELSE {}}
     \cup {[f EXCEPT !.to = t] :
             t \in IF f.to = MaxTime THEN 0..(MaxTime - 1) ELSE {}}
     \cup {[f EXCEPT !.near = Some([lat |-> 0, lon |-> 0, radiusMiles |-> r])] :
             r \in IF IsNil(f.near) THEN Optional(Radii) ELSE {}}
     \cup {[f EXCEPT !.states = <<"TX">>] : x \in IF f.states = <<>> THEN {1} ELSE {}}
     \cup {[f EXCEPT !.counties = <<"Dallas">>] :
             x \in IF f.counties = <<>> THEN {1} ELSE {}}
     \cup {[f EXCEPT !.eventTypes = Append(@, t)] : t \in EventTypeEnum}
     \cup {[f EXCEPT !.severity = <<"SEVERE">>] :
             x \in IF f.severity = <<>> THEN {1} ELSE {}}
     \cup {[f EXCEPT !.minMagnitude = Some(m)] :
             m \in IF IsNil(f.minMagnitude) THEN 1..MaxMagnitude ELSE {}}
     \cup {[f EXCEPT !.eventTypeFilters = Append(@, TypeOnly(t))] :
             t \in EventTypeEnum}
     \cup {[f EXCEPT !.eventTypeFilters[k].severity = <<"SEVERE">>] :
             x \in IF k > 0 /\ etf[k].severity = <<>> THEN {1} ELSE {}}
     \cup {[f EXCEPT !.eventTypeFilters[k].minMagnitude = Some(m)] :
             m \in IF k > 0 /\ IsNil(etf[k].minMagnitude)
                   THEN 1..MaxMagnitude ELSE {}}
     \cup {[f EXCEPT !.eventTypeFilters[k].radiusMiles = Some(r)] :
             r \in IF k > 0 /\ IsNil(etf[k].radiusMiles) THEN Radii ELSE {}}

\* Spots of the plane in which rows lie.
GeoPoints ==
  {[lat |-> 20 * k, lon |-> 20 * j] : k \in 0..MaxRadiusSteps, j \in 0..MaxRadiusSteps}
    \ {[lat |-> 0, lon |-> 20 * j] : j \in 1..MaxRadiusSteps}

\* Places in which rows lie.
Places ==
  {[state |-> "TX", county |-> "Dallas"], [state |-> "TX", county |-> "Travis"],
   [state |-> "OK", county |-> "Dallas"]}

\* A row of storm_reports: the columns the queries read.
Row(t, g, m, e, p, s) ==
  [eventType |-> t, lat |-> g.lat, lon |-> g.lon, magnitude |-> m,
   eventTime |-> e, state |-> p.state, county |-> p.county, severity |-> s]

\* Every row storm_reports can hold over the drawn column values.
RowUniverse ==
  {Row(DBValue(t), g, m, e, p, s) :
     t \in EventTypeEnum, g \in GeoPoints, m \in Magnitudes, e \in Times,
     p \in Places, s \in {Nil, Some("severe")}}

(* ------------------------- compiling a filter -------------------------- *)
\* The query facade validates and defaults the filter before any storage
\* call; a rejected filter reaches no storage call.
ResolverValidate(f) == ValidateFilter(f)

\* The client starts to write a filter.
WhereInit ==
  /\ filter = TimeOnlyFilter
  /\ where = <<>> /\ args = <<>> /\ nextIdx = 0
  /\ countArgs = <<>> /\ dataArgs = <<>>
  /\ reports = <<>> /\ totalCount = 0 /\ agg = NoAgg /\ call = "none"
  /\ pages = <<>>
  /\ FacadeIdle
  /\ IngestIdle /\ StoreIdle /\ HttpIdle /\ DepthIdle

\* The client gives one more input of the filter.
AddWhereInput ==
  /\ call = "none"
  /\ Given(filter) < MaxGiven
  /\ filter' \in WhereInputs(filter)
  /\ UNCHANGED <<where, args, nextIdx, countArgs, dataArgs, reports,
                 totalCount, agg, call, pages,
                 facadeVars, ingestVars, storeVars, httpVars, depthVars>>

\* The resolver validates the filter; a valid one is compiled by the store:
\* buildWhereClause(filter).
CallBuildWhereClause ==
  /\ call = "none"
  /\ LET v == ResolverValidate(filter)
         w == buildWhereClause(v.filter)
     IN IF v.err
        THEN /\ call' = "rejected"
             /\ UNCHANGED <<filter, where, args, nextIdx>>
        ELSE /\ call' = "where"
             /\ filter' = v.filter
             /\ where' = w.where
             /\ args' = w.args
             /\ nextIdx' = w.idx
  /\ UNCHANGED <<countArgs, dataArgs, reports, totalCount, agg, pages,
                 facadeVars, ingestVars, storeVars, httpVars, depthVars>>

WhereNext == AddWhereInput \/ CallBuildWhereClause

WhereSpec == WhereInit /\ [][WhereNext]_vars

(* ------------------------- per-type semantics -------------------------- *)
PerTypeMode == Len(filter.eventTypeFilters) > 0

\* The row lies in the time range and in the states and counties asked for.
InEnvelope(f, row) ==
  /\ f.from <= row.eventTime /\ row.eventTime <= f.to
  /\ (Len(f.states) > 0 => row.state \in Range(f.states))
  /\ (Len(f.counties) > 0 => row.county \in Range(f.counties))

\* The row satisfies a severity list, a minimum magnitude and a radius
\* around near; an absent constraint is satisfied by every row.
Satisfies(row, sev, minMag, near, radius) ==
  /\ (Len(sev) > 0 =>
        \E i \in 1..Len(sev) : row.severity = Some(DBValue(sev[i])))
  /\ (~IsNil(minMag) => row.magnitude >= Deref(minMag))
  /\ ((~IsNil(near) /\ ~IsNil(radius)) =>
        Square(row.lat - Deref(near).lat) + Square(row.lon - Deref(near).lon)
          <= Square(Deref(radius)))

GlobalRadius(f) == IF IsNil(f.near) THEN Nil ELSE Deref(f.near).radiusMiles

\* The row satisfies the constraints that entry tf sets for its type, the
\* global values standing in for those the entry leaves out.
SatisfiesOverride(f, tf, row) ==
  Satisfies(row,
            IF tf.severity = <<>> THEN f.severity ELSE tf.severity,
            IF IsNil(tf.minMagnitude) THEN f.minMagnitude ELSE tf.minMagnitude,
            f.near,
            IF IsNil(tf.radiusMiles) THEN GlobalRadius(f) ELSE tf.radiusMiles)

\* There is a condition for the row's own event type that the row satisfies.
OwnTypeCondition(f, row) ==
  LET etf == f.eventTypeFilters
      own(t) == DBValue(t) = row.eventType
  IN \/ \E i \in 1..Len(etf) :
          own(etf[i].eventType) /\ SatisfiesOverride(f, etf[i], row)
     \/ /\ \E i \in 1..Len(f.eventTypes) : own(f.eventTypes[i])
        /\ \A i \in 1..Len(etf) : ~own(etf[i].eventType)
        /\ Satisfies(row, f.severity, f.minMagnitude, f.near, GlobalRadius(f))

Disjuncts == where[Len(where)].parts

\* The disjuncts whose event_type predicate is bound to type t.
DisjunctsOf(t) ==
  {i \in 1..Len(Disjuncts) : args[Disjuncts[i].parts[1].p] = DBValue(t)}

OverriddenTypes ==
  {filter.eventTypeFilters[i].eventType : i \in 1..Len(filter.eventTypeFilters)}

\* The predicates of kind k in disjunct d.
PartsOfKind(d, k) == {j \in 1..Len(d.parts) : d.parts[j].kind = k}

\* Disjunct d carries exactly the global severity, minMagnitude and radius.
CarriesGlobals(d) ==
  /\ IF Len(filter.severity) > 0
     THEN \E j \in PartsOfKind(d, "measurement_severity = ANY") :
            args[d.parts[j].p] = severityDBValues(filter.severity)
     ELSE PartsOfKind(d, "measurement_severity = ANY") = {}
  /\ IF ~IsNil(filter.minMagnitude)
     THEN \E j \in PartsOfKind(d, "measurement_magnitude >=") :
            args[d.parts[j].p] = Deref(filter.minMagnitude)
     ELSE PartsOfKind(d, "measurement_magnitude >=") = {}
  /\ IF ~IsNil(GlobalRadius(filter))
     THEN \E j \in PartsOfKind(d, "distance <=") :
            args[d.parts[j].p + 3] = Deref(GlobalRadius(filter))
     ELSE PartsOfKind(d, "distance <=") = {}

\* C16: per-type mode: every type of eventTypes that has no entry in
\* eventTypeFilters contributes exactly one disjunct, which carries the
\* global severity, minMagnitude and near radius; a type in both lists
\* contributes exactly one disjunct, never two.
C16_OneDisjunctPerType ==
  (call = "where" /\ PerTypeMode) =>
    /\ \A t \in Range(filter.eventTypes) \cup OverriddenTypes :
         Cardinality(DisjunctsOf(t)) = 1
    /\ \A t \in Range(filter.eventTypes) \ OverriddenTypes :
         \A i \in DisjunctsOf(t) : CarriesGlobals(Disjuncts[i])

(* ------------------------ the table for queries ------------------------ *)
\* Reports that the consumers may have stored before a query: two that
\* agree in time, magnitude and state, two of one event type, and one later
\* than every time range drawn.
StoredReports ==
  <<[id |-> 1, eventType |-> "hail", lat |-> 0, lon |-> 0, magnitude |-> 1,
     eventTime |-> 1, state |-> "TX", county |-> "Dallas",
     severity |-> Some("severe"), timeBucket |-> 1, unit |-> "in"],
    [id |-> 2, eventType |-> "wind", lat |-> 20, lon |-> 0, magnitude |-> 1,
     eventTime |-> 1, state |-> "TX", county |-> "Travis",
     severity |-> Nil, timeBucket |-> 1, unit |-> "mph"],
    [id |-> 3, eventType |-> "hail", lat |-> 20, lon |-> 20, magnitude |-> 0,
     eventTime |-> MaxTime, state |-> "OK", county |-> "Dallas",
     severity |-> Some("minor"), timeBucket |-> MaxTime, unit |-> "mph"],
    [id |-> 4, eventType |-> "hail", lat |-> 0, lon |-> 0, magnitude |-> 0,
     eventTime |-> MaxTime + 1, state |-> "TX", county |-> "Dallas",
     severity |-> Some("severe"), timeBucket |-> MaxTime + 1,
     unit |-> "in"]>>

(* ------------------------- sorting and paging -------------------------- *)
SortFieldEnum == {"EVENT_TIME", "MAGNITUDE", "LOCATION_STATE", "EVENT_TYPE"}
SortOrderEnum == {"ASC", "DESC"}

\* sortColumn: the SQL column of a sort field.
sortColumn(sf) ==
  CASE sf = "EVENT_TIME" -> "event_time"
    [] sf = "MAGNITUDE" -> "measurement_magnitude"
    [] sf = "LOCATION_STATE" -> "location_state"
    [] sf = "EVENT_TYPE" -> "event_type"
    [] OTHER -> "event_time"

\* ListStormReports: ORDER BY column, event_time unless sortBy is given.
orderCol(f) ==
  IF ~IsNil(f.sortBy) /\ Deref(f.sortBy) \in SortFieldEnum
  THEN sortColumn(Deref(f.sortBy)) ELSE "event_time"

\* ListStormReports: direction, DESC unless sortOrder is ASC.
orderDir(f) ==
  IF ~IsNil(f.sortOrder) /\ Deref(f.sortOrder) \in SortOrderEnum
     /\ Deref(f.sortOrder) = "ASC"
  THEN "ASC" ELSE "DESC"

\* Position of a text value in the collation of the database.
Collate(s) ==
  CASE s = "OK" -> 1 [] s = "TX" -> 2
    [] s = "hail" -> 1 [] s = "tornado" -> 2 [] s = "wind" -> 3

\* The value of the ORDER BY column in a row, as a number.
SortKey(row, col) ==
  CASE col = "event_time" -> row.eventTime
    [] col = "measurement_magnitude" -> row.magnitude
    [] col = "location_state" -> Collate(row.state)
    [] col = "event_type" -> Collate(row.eventType)

\* Row a may stand before row b under ORDER BY col dir.
InOrder(a, b, col, dir) ==
  IF dir = "ASC" THEN SortKey(a, col) <= SortKey(b, col)
  ELSE SortKey(a, col) >= SortKey(b, col)

\* The rows of table t (by position) that the clauses select.
Selected(clauses, a, t) == {i \in 1..Len(t) : Matches(clauses, a, t[i])}

\* The orders in which the database may hand out the rows S of t: every
\* arrangement, rows that agree in the ORDER BY column in any order.
Scans(S) ==
  {s \in [1..Cardinality(S) -> S] :
     \A i \in 1..Cardinality(S), j \in 1..Cardinality(S) :
       i # j => s[i] # s[j]}

\* ORDER BY col dir names no second column: rows that agree in col come in
\* an order the database chooses at each query.
Orderings(S, t, col, dir) ==
  {s \in Scans(S) :
     \A i \in 1..(Cardinality(S) - 1) : InOrder(t[s[i]], t[s[i + 1]], col, dir)}

\* LIMIT lim OFFSET off of an ordered result; Nil is an absent clause.
Page(s, lim, off) ==
  LET o == IF IsNil(off) THEN 0 ELSE Deref(off)
      last == IF IsNil(lim) \/ o + Deref(lim) > Len(s) THEN Len(s)
              ELSE o + Deref(lim)
  IN IF o >= Len(s) THEN <<>> ELSE SubSeq(s, o + 1, last)

(* --------------------------- ListStormReports -------------------------- *)
\* ListStormReports, the queries, w being buildWhereClause(f): the data
\* query has the where clause and its arguments, then LIMIT $idx and
\* OFFSET $idx+1 for the ones given.
ListQuery(w, f) ==
  LET a1 == IF IsNil(f.limit) THEN w.args ELSE Append(w.args, Deref(f.limit))
      idx1 == IF IsNil(f.limit) THEN w.idx ELSE w.idx + 1
  IN [where |-> w.where, baseArgs |-> w.args, idx |-> w.idx,
      limitAt |-> IF IsNil(f.limit) THEN 0 ELSE w.idx,
      offsetAt |-> IF IsNil(f.offset) THEN 0 ELSE idx1,
      dataArgs |-> IF IsNil(f.offset) THEN a1
                   ELSE Append(a1, Deref(f.offset))]

\* The value bound to positional parameter $at; no parameter for at = 0.
Param(a, at) == IF at = 0 THEN Nil ELSE Some(a[at])

\* The count query counting the rows of the page only.
TotalCountOfPage(counted, page) == Len(page)

\* SELECT COUNT(*) FROM storm_reports WHERE ...: the rows the where clause
\* selects with the base arguments.
TotalCount(counted, page) == Cardinality(counted)

\* The filters obtained from f by giving one more input of the data query.
PageInputs(f) ==
  {[f EXCEPT !.sortBy = Some(sf)] :
     sf \in IF IsNil(f.sortBy) THEN SortFieldEnum ELSE {}}
    \cup {[f EXCEPT !.sortOrder = Some(so)] :
            so \in IF IsNil(f.sortOrder) THEN SortOrderEnum ELSE {}}
    \cup {[f EXCEPT !.limit = Some(l)] :
            l \in IF IsNil(f.limit) THEN 1..MaxGiven ELSE {}}
    \cup {[f EXCEPT !.offset = Some(o)] :
            o \in IF IsNil(f.offset) THEN 1..MaxGiven ELSE {}}

QueryInit == WhereInit

\* A consumer stores a report before the client queries.
StoreReport ==
  /\ call = "none"
  /\ Len(rows) + Given(filter) < MaxGiven
  /\ \E i \in 1..Len(StoredReports) : rows' = UpsertRow(rows, StoredReports[i])
  /\ UNCHANGED <<insertedIds, lastErr, lastDbUp, okReports, reobserved,
                 ingestVars, httpVars, depthVars, queryVars>>

\* The client gives one more input of the query.
AddQueryInput ==
  /\ call = "none"
  /\ Len(rows) + Given(filter) < MaxGiven
  /\ filter' \in WhereInputs(filter) \cup PageInputs(filter)
  /\ UNCHANGED <<where, args, nextIdx, countArgs, dataArgs, reports,
                 totalCount, agg, call, pages,
                 facadeVars, ingestVars, storeVars, httpVars, depthVars>>

\* The resolver validates the filter and calls Store.ListStormReports: the
\* count query, then the data query.
CallListStormReports ==
  /\ call \in {"none", "next"}
  /\ \E v \in {ResolverValidate(filter)} :
       IF v.err
       THEN /\ call' = "rejected"
            /\ UNCHANGED <<filter, where, args, nextIdx, countArgs, dataArgs,
                           reports, totalCount, pages>>
       ELSE \E w \in {buildWhereClause(v.filter)} :
            \E q \in {ListQuery(w, v.filter)} :
            \E sel \in {Selected(q.where, q.dataArgs, rows)} :
            \E counted \in {Selected(q.where, q.baseArgs, rows)} :
            \E s \in Orderings(sel, rows, orderCol(v.filter),
                               orderDir(v.filter)) :
            \E page \in {Page(s, Param(q.dataArgs, q.limitAt),
                              Param(q.dataArgs, q.offsetAt))} :
            \E got \in {[i \in 1..Len(page) |-> rows[page[i]]]} :
            \E n \in {TotalCount(counted, got)} :
              /\ call' = "list"
              /\ filter' = v.filter
              /\ where' = q.where
              /\ args' = q.baseArgs
              /\ nextIdx' = q.idx
              /\ countArgs' = q.baseArgs
              /\ dataArgs' = q.dataArgs
              /\ reports' = got
              /\ totalCount' = n
              /\ pages' = Append(pages,
                                 [limit |-> v.filter.limit,
                                  offset |-> v.filter.offset,
                                  ids |-> [i \in 1..Len(got) |-> got[i].id],
                                  totalCount |-> n])
  /\ UNCHANGED <<agg, facadeVars, ingestVars, storeVars, httpVars, depthVars>>

\* The client asks for the next page: the same query with offset + limit.
NextPage ==
  /\ call = "list"
  /\ LET o == IF IsNil(filter.offset) THEN 0 ELSE Deref(filter.offset)
     IN /\ o + Deref(filter.limit) <= MaxGiven
        /\ filter' = [filter EXCEPT !.offset = Some(o + Deref(filter.limit))]
  /\ call' = "next"
  /\ UNCHANGED <<where, args, nextIdx, countArgs, dataArgs, reports,
                 totalCount, agg, pages,
                 facadeVars, ingestVars, storeVars, httpVars, depthVars>>

(* ----------------------------- Aggregations ---------------------------- *)
RECURSIVE FirstSeen(_)
\* The distinct values of a sequence in the order of their first occurrence.
FirstSeen(s) ==
  IF s = <<>> THEN <<>>
  ELSE <<Head(s)>> \o SelectSeq(FirstSeen(Tail(s)), LAMBDA x : x # Head(s))

\* COUNT(*) of the group with key k, keys being the grouping column(s) of
\* the rows of base.
GroupCount(keys, k) == Cardinality({i \in 1..Len(keys) : keys[i] = k})

\* The rows of the aggregation query over the rows of the CTE base: one per
\* event type, one per (state, county), one per time bucket.
AggRows(base) ==
  LET typeOf == [i \in 1..Len(base) |-> base[i].eventType]
      placeOf == [i \in 1..Len(base) |->
                    [state |-> base[i].state, county |-> base[i].county]]
      bucketOf == [i \in 1..Len(base) |-> base[i].timeBucket]
      types == FirstSeen(typeOf)
      places == FirstSeen(placeOf)
      buckets == FirstSeen(bucketOf)
  IN [i \in 1..Len(types) |->
        [agg |-> "type", key1 |-> Some(types[i]), key2 |-> Nil,
         count |-> GroupCount(typeOf, types[i]),
         maxMag |-> Some(SetMax({base[j].magnitude :
                                   j \in {m \in 1..Len(base) :
                                            base[m].eventType = types[i]}})),
         bucket |-> Nil]]
     \o [i \in 1..Len(places) |->
           [agg |-> "state", key1 |-> Some(places[i].state),
            key2 |-> Some(places[i].county),
            count |-> GroupCount(placeOf, places[i]),
            maxMag |-> Nil, bucket |-> Nil]]
     \o [i \in 1..Len(buckets) |->
           [agg |-> "hour", key1 |-> Nil, key2 |-> Nil,
            count |-> GroupCount(bucketOf, buckets[i]),
            maxMag |-> Nil, bucket |-> Some(buckets[i])]]

stringOrEmpty(s) == IF IsNil(s) THEN "" ELSE Deref(s)

\* unitForEventType without the case of hail.
unitForEventTypeNoHail(et) ==
  CASE et = "wind" -> "mph"
    [] et = "tornado" -> "f_scale"
    [] OTHER -> ""

\* The measurement unit of an event type.
unitForEventType(et) ==
  CASE et = "hail" -> "in"
    [] et = "wind" -> "mph"
    [] et = "tornado" -> "f_scale"
    [] OTHER -> ""

\* The state case without the stateMap lookup: every row opens a group.
AddCountyNoLookup(byState, r) ==
  Append(byState, [state |-> stringOrEmpty(r.key1), count |-> r.count,
                   counties |-> <<[county |-> stringOrEmpty(r.key2),
                                   count |-> r.count]>>])

\* The state case without the accumulation: the count of the last county.
AddCountyLastCount(byState, r) ==
  LET state == stringOrEmpty(r.key1)
      cg == [county |-> stringOrEmpty(r.key2), count |-> r.count]
  IN IF \E i \in 1..Len(byState) : byState[i].state = state
     THEN [i \in 1..Len(byState) |->
             IF byState[i].state = state
             THEN [byState[i] EXCEPT !.count = r.count,
                                     !.counties = Append(@, cg)]
             ELSE byState[i]]
     ELSE Append(byState, [state |-> state, count |-> r.count,
                           counties |-> <<cg>>])

\* Aggregations, case "state": the county is added to the group of its
\* state (stateMap, in stateOrder), whose count grows by the county's count.
AddCounty(byState, r) ==
  LET state == stringOrEmpty(r.key1)
      cg == [county |-> stringOrEmpty(r.key2), count |-> r.count]
  IN IF \E i \in 1..Len(byState) : byState[i].state = state
     THEN [i \in 1..Len(byState) |->
             IF byState[i].state = state
             THEN [byState[i] EXCEPT !.count = @ + r.count,
                                     !.counties = Append(@, cg)]
             ELSE byState[i]]
     ELSE Append(byState, [state |-> state, count |-> r.count,
                           counties |-> <<cg>>])

\* Aggregations, the body of the scan loop for one row of the result.
ScanAggRow(res, r) ==
  CASE r.agg = "type" ->
         [res EXCEPT !.byEventType =
            Append(@, [eventType |-> stringOrEmpty(r.key1), count |-> r.count,
                       maxMeasurement |->
                         IF IsNil(r.maxMag) THEN Nil
                         ELSE Some([magnitude |-> Deref(r.maxMag),
                                    unit |-> unitForEventType(
                                               stringOrEmpty(r.key1))])])]
    [] r.agg = "state" -> [res EXCEPT !.byState = AddCounty(@, r)]
    [] r.agg = "hour" ->
         IF IsNil(r.bucket) THEN res
         ELSE [res EXCEPT !.byHour =
                 Append(@, [bucket |-> Deref(r.bucket), count |-> r.count])]
    [] OTHER -> res

RECURSIVE ScanAggRows(_, _)
\* Aggregations, the scan loop.
ScanAggRows(res, rs) ==
  IF rs = <<>> THEN res
  ELSE ScanAggRows(ScanAggRow(res, Head(rs)), Tail(rs))

\* The resolver validates the filter and calls Store.Aggregations; the
\* groups come in the order in which the database meets their first row.
CallAggregations ==
  /\ call = "none"
  /\ \E v \in {ResolverValidate(filter)} :
       IF v.err
       THEN /\ call' = "rejected"
            /\ UNCHANGED <<filter, where, args, nextIdx, reports, agg>>
       ELSE \E w \in {buildWhereClause(v.filter)} :
            \E sel \in {Selected(w.where, w.args, rows)} :
            \E scan \in Scans(sel) :
            \E base \in {[i \in 1..Len(scan) |-> rows[scan[i]]]} :
              /\ call' = "agg"
              /\ filter' = v.filter
              /\ where' = w.where
              /\ args' = w.args
              /\ nextIdx' = w.idx
              /\ reports' = base
              /\ agg' = ScanAggRows(NoAgg, AggRows(base))
  /\ UNCHANGED <<countArgs, dataArgs, totalCount, pages,
                 facadeVars, ingestVars, storeVars, httpVars, depthVars>>

QueryNext ==
  \/ StoreReport
  \/ AddQueryInput
  \/ CallListStormReports
  \/ NextPage
  \/ CallAggregations

QuerySpec == QueryInit /\ [][QueryNext]_vars

(* ------------------------- queries: properties ------------------------- *)
\* The offset of a page read; no OFFSET clause reads from the start.
OffsetOf(pg) == IF IsNil(pg.offset) THEN 0 ELSE Deref(pg.offset)

\* C17: pages do not overlap: with the stored set, the filter and the sort
\* fixed, the page read with offset = limit has no id of the page read with
\* offset = 0, whatever the sort field and direction, also when rows agree
\* in the sort key.
C17_PagesDisjoint ==
  \A i \in 1..Len(pages), j \in 1..Len(pages) :
    (OffsetOf(pages[i]) = 0 /\ OffsetOf(pages[j]) = Deref(pages[i].limit))
      => Range(pages[i].ids) \cap Range(pages[j].ids) = {}

\* C18: totalCount ignores pagination: the count query has exactly the
\* arguments of the where clause, limit and offset follow them in the data
\* query as the next positional parameters, and every page read of one
\* query reports the number of stored rows the where clause selects, also a
\* page whose offset lies beyond that number and which is empty.
C18_TotalCountIgnoresPaging ==
  /\ call = "list" =>
       /\ countArgs = args
       /\ nextIdx = Len(args) + 1
       /\ totalCount = Cardinality(Selected(where, args, rows))
       /\ SubSeq(dataArgs, 1, Len(args)) = args
       /\ dataArgs[nextIdx] = Deref(filter.limit)
       /\ IF IsNil(filter.offset) THEN Len(dataArgs) = nextIdx
          ELSE /\ Len(dataArgs) = nextIdx + 1
               /\ dataArgs[nextIdx + 1] = Deref(filter.offset)
  /\ \A i \in 1..Len(pages) :
       pages[i].totalCount = Cardinality(Selected(where, args, rows))

\* Two pages were read, the first with rows, the last empty because its
\* offset is not below the total, which is still reported.
C18_Witness ==
  /\ call = "list" /\ Len(pages) >= 2
  /\ pages[1].ids # <<>>
  /\ reports = <<>> /\ totalCount > 0
  /\ OffsetOf(pages[Len(pages)]) >= totalCount

\* The row's event time lies in the time range of the filter, bounds included.
InTimeRange(row) == filter.from <= row.eventTime /\ row.eventTime <= filter.to

\* The stored rows (by position) whose event time lies in the time range.
StoredInRange == {i \in 1..Len(rows) : InTimeRange(rows[i])}

RECURSIVE SumCounts(_)
\* The sum of the counts of a sequence of groups.
SumCounts(groups) ==
  IF groups = <<>> THEN 0 ELSE Head(groups).count + SumCounts(Tail(groups))

\* C20: in the result of one Aggregations call the counts of byEventType,
\* those of byState and those of byHour each add up to the number of stored
\* rows matching the filter.
C20_AggregationSums ==
  call = "agg" =>
    LET n == Cardinality(Selected(where, args, rows))
    IN /\ SumCounts(agg.byEventType) = n
       /\ SumCounts(agg.byState) = n
       /\ SumCounts(agg.byHour) = n

\* Aggregations over a table of which the filter leaves a row out, with two
\* counties folded into one state.
C20_Witness ==
  /\ call = "agg"
  /\ Cardinality(Selected(where, args, rows)) >= 2
  /\ Cardinality(Selected(where, args, rows)) < Len(rows)
  /\ \E i \in 1..Len(agg.byState) : Len(agg.byState[i].counties) >= 2

\* The states of the rows of the CTE base in the order the database met them.
StatesScanned == [i \in 1..Len(reports) |-> reports[i].state]

\* C21: state fold: every state has exactly one StateGroup, also when its
\* (state, county) rows are not adjacent in the result set; the groups are
\* in first-seen order; each group's count is the sum of its counties'
\* counts, and a county is listed once in its group.
C21_StateFold ==
  call = "agg" =>
    /\ [i \in 1..Len(agg.byState) |-> agg.byState[i].state]
         = FirstSeen(StatesScanned)
    /\ \A i \in 1..Len(agg.byState), j \in 1..Len(agg.byState) :
         i # j => agg.byState[i].state # agg.byState[j].state
    /\ \A i \in 1..Len(agg.byState) :
         LET g == agg.byState[i]
         IN /\ g.count = SumCounts(g.counties)
            /\ g.count = Cardinality({j \in 1..Len(reports) :
                                        reports[j].state = g.state})
            /\ \A m \in 1..Len(g.counties), n \in 1..Len(g.counties) :
                 m # n => g.counties[m].county # g.counties[n].county

\* Two counties of one state with a county of another state between them,
\* folded into one group of two counties that stands first.
C21_Witness ==
  /\ call = "agg" /\ Len(agg.byState) = 2
  /\ Len(agg.byState[1].counties) = 2
  /\ \E i \in 1..Len(reports), j \in 1..Len(reports), k \in 1..Len(reports) :
       /\ i < j /\ j < k
       /\ reports[i].state = reports[k].state
       /\ reports[i].state # reports[j].state

\* The unit invariant of the entity: the unit each event type mandates.
MandatedUnit == [hail |-> "in", wind |-> "mph", tornado |-> "f_scale"]

\* The rows of the CTE base that have the event type et.
RowsOfType(et) == {j \in 1..Len(reports) : reports[j].eventType = et}

ValidationInputs(f) ==
  LET etf == f.eventTypeFilters
      k == Len(etf)
  IN {[f EXCEPT !.from = t] : t \in IF f.from = 0 THEN 1..MaxTime ELSE {}}
     \cup {[f EXCEPT !.to = t] :
             t \in IF f.to = MaxTime THEN 0..(MaxTime - 1) ELSE {}}
     \cup {[f EXCEPT !.near = Some([lat |-> 0, lon |-> 0, radiusMiles |-> r])] :
             r \in IF IsNil(f.near)
                   THEN {Nil, Some(-1), Some(DefaultRadiusMiles),
                         Some(MaxRadiusMiles), Some(MaxRadiusMiles + 1)}
                   ELSE {}}
     \cup {[f EXCEPT !.limit = Some(l)] :
             l \in IF IsNil(f.limit)
                   THEN {-1, 1, MaxPageSize, MaxPageSize + 1}
                   ELSE {}}
     \cup {[f EXCEPT !.offset = Some(o)] :
             o \in IF IsNil(f.offset) THEN {-1, 1} ELSE {}}
     \cup {[f EXCEPT !.eventTypeFilters[k].radiusMiles = Some(r)] :
             r \in IF k > 0 /\ IsNil(etf[k].radiusMiles)
                   THEN {-1, MaxRadiusMiles, MaxRadiusMiles + 1} ELSE {}}

\* The filters obtained from f by one more eventTypeFilters entry.
EntryInputs(f) ==
  {[f EXCEPT !.eventTypeFilters = Append(@, TypeOnly(t))] : t \in EventTypeEnum}

ValidateInit == WhereInit

\* The client gives one more input that the validation looks at.
AddValidationInput ==
  /\ call = "none"
  /\ Given(filter) - Len(filter.eventTypeFilters) < MaxGiven
  /\ filter' \in ValidationInputs(filter)
  /\ UNCHANGED <<where, args, nextIdx, countArgs, dataArgs, reports,
                 totalCount, agg, call, pages,
                 facadeVars, ingestVars, storeVars, httpVars, depthVars>>

\* The client adds an eventTypeFilters entry, up to one more than allowed.
AddEntry ==
  /\ call = "none"
  /\ Len(filter.eventTypeFilters) <= MaxEventTypeFilters
  /\ filter' \in EntryInputs(filter)
  /\ UNCHANGED <<where, args, nextIdx, countArgs, dataArgs, reports,
                 totalCount, agg, call, pages,
                 facadeVars, ingestVars, storeVars, httpVars, depthVars>>

\* ValidateFilter(filter): the error is returned, the filter is left with
\* the defaults applied.
CallValidateFilter ==
  /\ call = "none"
  /\ \E v \in {ValidateFilter(filter)} :
       /\ given' = filter
       /\ verr' = v.msg
       /\ filter' = v.filter
       /\ call' = IF v.err THEN "rejected" ELSE "valid"
  /\ UNCHANGED <<where, args, nextIdx, countArgs, dataArgs, reports,
                 totalCount, agg, pages, selection, storageCalls,
                 ingestVars, storeVars, httpVars, depthVars>>

ValidateNext == AddValidationInput \/ AddEntry \/ CallValidateFilter

ValidateSpec == ValidateInit /\ [][ValidateNext]_vars

(* ------------------------ validation: properties ----------------------- *)
Validated == call \in {"valid", "rejected"}

TimeRangeError ==
  Errorf("timeRange.to must be after timeRange.from", -1, "", 0)

\* C22: ValidateFilter returns "timeRange.to must be after timeRange.from"
\* exactly when to is not strictly after from, to = from included, whatever
\* else is wrong with the filter: the test comes before every other check.
C22_TimeRangeFirst ==
  Validated => ((given.to <= given.from) <=> (verr = TimeRangeError))

\* A filter with to = from and a limit above the page size gets the time
\* range error.
C22_Witness ==
  /\ call = "rejected" /\ given.to = given.from
  /\ ~IsNil(given.limit) /\ Deref(given.limit) > MaxPageSize
  /\ verr = TimeRangeError

\* No check that comes before the one of the limit fails for the given filter.
ChecksBeforeLimitPass ==
  /\ given.to > given.from
  /\ (~IsNil(given.near) /\ ~IsNil(Deref(given.near).radiusMiles))
       => Deref(Deref(given.near).radiusMiles) <= MaxRadiusMiles
  /\ Len(given.eventTypeFilters) <= MaxEventTypeFilters
  /\ \A i \in 1..Len(given.eventTypeFilters) :
       LET e == given.eventTypeFilters[i]
       IN /\ IsNil(e.radiusMiles) \/ Deref(e.radiusMiles) <= MaxRadiusMiles
          /\ \A j \in 1..(i - 1) :
               given.eventTypeFilters[j].eventType # e.eventType

\* C23: after ValidateFilter returns nil the limit is set and at most
\* MaxPageSize: an omitted limit has become MaxPageSize, an explicit one is
\* unchanged; an explicit limit above MaxPageSize is always rejected, with
\* "limit exceeds maximum of 20" when no earlier check fails.
C23_LimitDefaultAndCap ==
  /\ call = "valid" =>
       /\ ~IsNil(filter.limit) /\ Deref(filter.limit) <= MaxPageSize
       /\ filter.limit = IF IsNil(given.limit) THEN Some(MaxPageSize)
                         ELSE given.limit
  /\ (Validated /\ ~IsNil(given.limit) /\ Deref(given.limit) > MaxPageSize) =>
       /\ call = "rejected"
       /\ ChecksBeforeLimitPass =>
            verr = Errorf("limit exceeds maximum of %d", -1, "", MaxPageSize)
  /\ (Validated /\ verr.text = "limit exceeds maximum of %d") =>
       (~IsNil(given.limit) /\ Deref(given.limit) > MaxPageSize)

\* A limit one above the page size is the only fault and is rejected.
C23_Witness ==
  /\ call = "rejected" /\ ChecksBeforeLimitPass
  /\ given.limit = Some(MaxPageSize + 1)
  /\ verr = Errorf("limit exceeds maximum of %d", -1, "", MaxPageSize)

NearRadiusError ==
  Errorf("near.radiusMiles exceeds maximum of %.0f", -1, "", MaxRadiusMiles)

\* C24: after ValidateFilter returns nil on a filter with near, the radius
\* is set and at most MaxRadiusMiles: an omitted radius has become
\* DefaultRadiusMiles, an explicit one is unchanged; a radius of exactly
\* MaxRadiusMiles never gets the radius error; a larger one is always
\* rejected, with "near.radiusMiles exceeds maximum of 200" when the time
\* range is valid.
C24_NearRadiusDefaultAndCap ==
  /\ (call = "valid" /\ ~IsNil(given.near)) =>
       /\ ~IsNil(filter.near) /\ ~IsNil(Deref(filter.near).radiusMiles)
       /\ Deref(Deref(filter.near).radiusMiles) <= MaxRadiusMiles
       /\ Deref(filter.near).radiusMiles
            = IF IsNil(Deref(given.near).radiusMiles)
              THEN Some(DefaultRadiusMiles)
              ELSE Deref(given.near).radiusMiles
  /\ (Validated /\ ~IsNil(given.near)) =>
       LET r == Deref(given.near).radiusMiles
       IN IF ~IsNil(r) /\ Deref(r) > MaxRadiusMiles
          THEN /\ call = "rejected"
               /\ given.to > given.from => verr = NearRadiusError
          ELSE verr # NearRadiusError
  /\ (Validated /\ IsNil(given.near)) => verr # NearRadiusError

\* A filter whose near has no radius is accepted with the default radius.
C24_Witness ==
  /\ call = "valid" /\ ~IsNil(given.near)
  /\ IsNil(Deref(given.near).radiusMiles)
  /\ Deref(filter.near).radiusMiles = Some(DefaultRadiusMiles)

\* Entry i of the given eventTypeFilters repeats the type of an earlier one.
RepeatsType(i) ==
  \E j \in 1..(i - 1) :
    given.eventTypeFilters[j].eventType = given.eventTypeFilters[i].eventType

\* Entry i of the given eventTypeFilters has a radius above the maximum.
RadiusTooLarge(i) ==
  /\ ~IsNil(given.eventTypeFilters[i].radiusMiles)
  /\ Deref(given.eventTypeFilters[i].radiusMiles) > MaxRadiusMiles

\* The entries of the given eventTypeFilters that offend.
Offending ==
  {i \in 1..Len(given.eventTypeFilters) : RepeatsType(i) \/ RadiusTooLarge(i)}

\* The time range and the near radius of the given filter pass their checks.
ChecksBeforeEntriesPass ==
  /\ given.to > given.from
  /\ (~IsNil(given.near) /\ ~IsNil(Deref(given.near).radiusMiles))
       => Deref(Deref(given.near).radiusMiles) <= MaxRadiusMiles

\* C25: after ValidateFilter returns nil there are at most 3
\* eventTypeFilters entries, of pairwise distinct types, each radius at most
\* 200; more than 3 entries, a repeated type or a radius above 200 is always
\* rejected, and when the time range and near pass, with one message that
\* names eventTypeFilters (too many) or the index of the first offending
\* entry together with what is wrong with it.
C25_EventTypeFilters ==
  /\ call = "valid" =>
       /\ filter.eventTypeFilters = given.eventTypeFilters
       /\ Len(filter.eventTypeFilters) <= MaxEventTypeFilters
       /\ Offending = {}
  /\ (Validated /\ (Len(given.eventTypeFilters) > MaxEventTypeFilters
                    \/ Offending # {})) =>
       /\ call = "rejected"
       /\ ChecksBeforeEntriesPass =>
            IF Len(given.eventTypeFilters) > MaxEventTypeFilters
            THEN verr = Errorf("at most %d eventTypeFilters allowed", -1, "",
                               MaxEventTypeFilters)
            ELSE /\ verr.index + 1 \in Offending
                 /\ \A i \in Offending : verr.index + 1 <= i
                 /\ \/ /\ RepeatsType(verr.index + 1)
                       /\ verr = Errorf(
                            "eventTypeFilters[%d]: duplicate eventType %s",
                            verr.index,
                            given.eventTypeFilters[verr.index + 1].eventType,
                            0)
                    \/ /\ RadiusTooLarge(verr.index + 1)
                       /\ verr = Errorf(
                            "eventTypeFilters[%d]: radiusMiles exceeds maximum of %.0f",
                            verr.index, "", MaxRadiusMiles)

\* Three entries, the third repeating the type of an earlier one while the
\* second has too large a radius: the error names entry 1 and its radius.
C25_Witness ==
  /\ call = "rejected" /\ ChecksBeforeEntriesPass
  /\ Len(given.eventTypeFilters) = MaxEventTypeFilters
  /\ Offending = {2, 3}
  /\ RepeatsType(3)
  /\ verr = Errorf("eventTypeFilters[%d]: radiusMiles exceeds maximum of %.0f",
                   1, "", MaxRadiusMiles)

\* The radii of the accepted filter: that of near and those of the entries.
AcceptedRadii ==
  (IF IsNil(filter.near) THEN {}
   ELSE {Deref(Deref(filter.near).radiusMiles)})
    \cup {Deref(filter.eventTypeFilters[i].radiusMiles) :
            i \in {j \in 1..Len(filter.eventTypeFilters) :
                     ~IsNil(filter.eventTypeFilters[j].radiusMiles)}}

\* C37: every filter ValidateFilter accepts is well-formed for the compiler:
\* its limit is in 0..MaxPageSize, its offset is not negative, every radius
\* (near and per-type) is in 0..MaxRadiusMiles, and the bounding box built
\* from near has its lower bounds at or below its upper bounds.
C37_AcceptedFilterWellFormed ==
  call = "valid" =>
    /\ ~IsNil(filter.limit)
    /\ Deref(filter.limit) \in 0..MaxPageSize
    /\ IsNil(filter.offset) \/ Deref(filter.offset) >= 0
    /\ \A r \in AcceptedRadii : r \in 0..MaxRadiusMiles
    /\ ~IsNil(filter.near) =>
         LET bb == buildGeoClause(Deref(filter.near).lat, Deref(filter.near).lon,
                                  Deref(filter.near).radiusMiles, 1)
         IN bb.args[1] <= bb.args[2] /\ bb.args[3] <= bb.args[4]

--------------------------------------------------------------------------
\* Field-aware execution of the stormReports query.  collectFields and
\* applyMeta are in internal/graph/fields.go; the resolver that uses them is
\* modelled from section 4.5 of the specification.  storageCalls records
\* which store methods one query invokes; what the methods return is the
\* subject of QuerySpec.

\* The fields of StormReportsResult.
ResultFields == {"reports", "totalCount", "hasMore", "aggregations", "meta"}

\* The fields of the object-valued fields of StormReportsResult (two of the
\* fields of StormReport stand for all of them).
ChildFields(name) ==
  CASE name = "reports" -> {"id", "eventType"}
    [] name = "aggregations" ->
         {"totalCount", "byEventType", "byState", "byHour"}
    [] name = "meta" -> {"lastUpdated", "dataLagMinutes"}
    [] OTHER -> {}

\* A selected field: scalars have no selections, objects at least one.
FieldChoices(name) ==
  IF ChildFields(name) = {}
  THEN {[Name |-> name, Selections |-> {}]}
  ELSE {[Name |-> name, Selections |-> c] :
          c \in (SUBSET ChildFields(name)) \ {{}}}

\* A field is selected or not.
OptionalField(name) == {{}} \cup {{f} : f \in FieldChoices(name)}

\* The selection sets a valid stormReports query can carry.
SelectionSets ==
  {r \cup t \cup h \cup a \cup m :
     r \in OptionalField("reports"), t \in OptionalField("totalCount"),
     h \in OptionalField("hasMore"), a \in OptionalField("aggregations"),
     m \in OptionalField("meta")} \ {{}}

\* The names requested on StormReportsResult, with dotted names for the
\* fields nested one level below.
collectFields(q) ==
  {f.Name : f \in q}
    \cup UNION {{f.Name \o "." \o c : c \in f.Selections} : f \in q}

\* The list-and-count call is needed.
NeedsList(flds) ==
  "reports" \in flds \/ "totalCount" \in flds \/ "hasMore" \in flds

\* The aggregation call is needed.
NeedsAggregate(flds) == "aggregations" \in flds

\* The freshness call is needed.
NeedsMeta(flds) == "meta" \in flds

\* applyMeta running the aggregation besides the freshness query.
applyMetaAndAggregate(calls) == calls \cup {"LastUpdated", "Aggregate"}

\* applyMeta asks the store for the time of the last update.
applyMeta(calls) == calls \cup {"LastUpdated"}

\* The storage calls put into the fan-out group for the collected fields.
StorageCallsFor(flds) ==
  (IF NeedsList(flds) THEN {"List"} ELSE {})
    \cup (IF NeedsAggregate(flds) THEN {"Aggregate"} ELSE {})
    \cup (IF NeedsMeta(flds) THEN applyMeta({}) ELSE {})

\* The filters the queries of this specification carry: one that passes
\* validation and one whose time range is empty.
FacadeFilters ==
  {TimeOnlyFilter, [TimeOnlyFilter EXCEPT !.to = TimeOnlyFilter.from]}

FacadeInit == WhereInit

\* The resolver of stormReports: validate the filter, collect the requested
\* fields, run the storage calls they need.
StormReports ==
  /\ call = "none"
  /\ \E q \in SelectionSets, f \in FacadeFilters :
       \E v \in {ResolverValidate(f)} :
         \E flds \in {collectFields(q)} :
           /\ given' = f
           /\ verr' = v.msg
           /\ filter' = v.filter
           /\ selection' = flds
           /\ storageCalls' = IF v.err THEN {} ELSE StorageCallsFor(flds)
           /\ call' = IF v.err THEN "rejected" ELSE "resolved"
  /\ UNCHANGED <<where, args, nextIdx, countArgs, dataArgs, reports,
                 totalCount, agg, pages,
                 ingestVars, storeVars, httpVars, depthVars>>

FacadeNext == StormReports

FacadeSpec == FacadeInit /\ [][FacadeNext]_vars

\* C26: the list-and-count call runs only if reports, totalCount or hasMore
\* is selected, the aggregation call only if aggregations is selected, the
\* freshness call only if meta is selected; a query that selects only
\* reports runs neither the aggregation nor the freshness call.
C26_FieldSelective ==
  /\ "List" \in storageCalls =>
       selection \cap {"reports", "totalCount", "hasMore"} # {}
  /\ "Aggregate" \in storageCalls => "aggregations" \in selection
  /\ "LastUpdated" \in storageCalls => "meta" \in selection
  /\ selection \cap ResultFields = {"reports"} =>
       storageCalls \cap {"Aggregate", "LastUpdated"} = {}

\* A resolved query that selected only reports and ran only the list call.
C26_Witness ==
  /\ call = "resolved"
  /\ selection \cap ResultFields = {"reports"}
  /\ "reports.id" \in selection
  /\ storageCalls = {"List"}

--------------------------------------------------------------------------
\* ListStormReports while the consumer goroutine writes: the count query and
\* the data query are two statements sent to the pool one after the other,
\* outside any transaction, and each sees the rows committed when it runs.

\* ListStormReports up to the count query.
CountQuery ==
  /\ call = "none"
  /\ \E v \in {ResolverValidate(filter)} :
       IF v.err
       THEN /\ call' = "rejected"
            /\ UNCHANGED <<filter, where, args, nextIdx, countArgs,
                           totalCount>>
       ELSE \E w \in {buildWhereClause(v.filter)} :
            \E q \in {ListQuery(w, v.filter)} :
            \E counted \in {Selected(q.where, q.baseArgs, rows)} :
              /\ call' = "counted"
              /\ filter' = v.filter
              /\ where' = q.where
              /\ args' = q.baseArgs
              /\ nextIdx' = q.idx
              /\ countArgs' = q.baseArgs
              /\ totalCount' = TotalCount(counted, <<>>)
  /\ UNCHANGED <<dataArgs, reports, agg, pages,
                 facadeVars, ingestVars, storeVars, httpVars, depthVars>>

\* The consumer stores a report between the two queries of a call.
ConsumerInsert ==
  /\ call = "counted"
  /\ Len(rows) + Given(filter) <= MaxGiven
  /\ \E i \in 1..Len(StoredReports) :
       /\ ~HasId(rows, StoredReports[i].id)
       /\ rows' = UpsertRow(rows, StoredReports[i])
  /\ UNCHANGED <<insertedIds, lastErr, lastDbUp, okReports, reobserved,
                 ingestVars, httpVars, depthVars, queryVars>>

\* ListStormReports from the data query to the return.
DataQuery ==
  /\ call = "counted"
  /\ \E w \in {buildWhereClause(filter)} :
     \E q \in {ListQuery(w, filter)} :
     \E sel \in {Selected(q.where, q.dataArgs, rows)} :
     \E s \in Orderings(sel, rows, orderCol(filter), orderDir(filter)) :
     \E page \in {Page(s, Param(q.dataArgs, q.limitAt),
                       Param(q.dataArgs, q.offsetAt))} :
     \E got \in {[i \in 1..Len(page) |-> rows[page[i]]]} :
       /\ call' = "list"
       /\ dataArgs' = q.dataArgs
       /\ reports' = got
       /\ pages' = Append(pages,
                          [limit |-> filter.limit, offset |-> filter.offset,
                           ids |-> [i \in 1..Len(got) |-> got[i].id],
                           totalCount |-> totalCount])
  /\ UNCHANGED <<filter, where, args, nextIdx, countArgs, totalCount, agg,
                 facadeVars, ingestVars, storeVars, httpVars, depthVars>>

ConcurrentListNext ==
  \/ StoreReport
  \/ AddQueryInput
  \/ CountQuery
  \/ ConsumerInsert
  \/ DataQuery

ConcurrentListSpec == QueryInit /\ [][ConcurrentListNext]_vars

\* C29: list results stay coherent under concurrent ingest: every result of
\* ListStormReports with a non-empty reports slice has
\* offset + len(reports) <= totalCount, also when rows matching the filter
\* are stored between the count query and the data query of the call.
C29_ListCoherent ==
  (call = "list" /\ reports # <<>>) =>
    OffsetOf(filter) + Len(reports) <= totalCount

--------------------------------------------------------------------------
\* The positional parameters of a compiled filter.

RECURSIVE Predicates(_)
\* The predicates of a sequence of clauses, left to right, the parenthesised
\* groups opened.
Predicates(cs) ==
  IF cs = <<>> THEN <<>>
  ELSE (IF Head(cs).p = 0 THEN Predicates(Head(cs).parts)
        ELSE <<Head(cs)>>)
         \o Predicates(Tail(cs))

\* The number of placeholders in the text of a predicate: four in the
\* bounding box and in the great-circle distance, one in the others.
Width(kind) == IF kind \in {"geo BETWEEN", "distance <="} THEN 4 ELSE 1

\* The placeholders of one predicate, left to right.
PlaceholdersOf(c) == [k \in 1..Width(c.kind) |-> c.p + k - 1]

RECURSIVE Placeholders(_)
\* The placeholders of a sequence of predicates, left to right.
Placeholders(ls) ==
  IF ls = <<>> THEN <<>>
  ELSE PlaceholdersOf(Head(ls)) \o Placeholders(Tail(ls))

\* The radii the filter gives: the one of near and those of the entries.
RadiiGiven ==
  (IF IsNil(GlobalRadius(filter)) THEN {}
   ELSE {Deref(GlobalRadius(filter))})
    \cup {Deref(filter.eventTypeFilters[i].radiusMiles) :
            i \in {j \in 1..Len(filter.eventTypeFilters) :
                     ~IsNil(filter.eventTypeFilters[j].radiusMiles)}}

\* C30: positional parameters are dense: the placeholders of the clauses
\* returned by buildWhereClause, read left to right, are $1 .. $n with
\* n = len(args), and the returned index is n + 1; a bounding box has four
\* placeholders and a great-circle predicate four, bound to
\* (lat, lon, lat, radius).
C30_DenseParameters ==
  call = "where" =>
    LET ls == Predicates(where)
        n == Len(args)
    IN /\ Placeholders(ls) = [i \in 1..n |-> i]
       /\ nextIdx = n + 1
       /\ \A i \in 1..Len(ls) :
            ls[i].kind = "distance <=" =>
              /\ <<args[ls[i].p], args[ls[i].p + 1], args[ls[i].p + 2]>>
                   = <<Deref(filter.near).lat, Deref(filter.near).lon,
                       Deref(filter.near).lat>>
              /\ args[ls[i].p + 3] \in RadiiGiven

\* A per-type filter compiled to a bounding box followed by two disjuncts
\* each with its own great-circle predicate.
C30_Witness ==
  /\ call = "where" /\ PerTypeMode
  /\ \E i \in 1..Len(where) : where[i].kind = "geo BETWEEN"
  /\ Len(Disjuncts) >= 2
  /\ \A i \in 1..Len(Disjuncts) : PartsOfKind(Disjuncts[i], "distance <=") # {}
  /\ Len(args) >= 16

--------------------------------------------------------------------------
\* Compiling filters in per-type mode: the filter is drawn whole, with one
\* or two eventTypeFilters entries of different types, and compiled.  The
\* compiler treats the event types alike, so the entries are for hail and
\* for wind.

\* The first entry sets any of its fields, the second its radius at most.
FirstEntries ==
  {[eventType |-> "HAIL", severity |-> s, minMagnitude |-> m,
    radiusMiles |-> r] :
     s \in {<<>>, <<"MODERATE">>},
     m \in Optional(Magnitudes), r \in Optional(Radii)}

SecondEntries(e1) ==
  {[TypeOnly("WIND") EXCEPT !.radiusMiles = r] : r \in Optional(Radii)}

PerTypeEntries ==
  {<<e1>> : e1 \in FirstEntries}
    \cup UNION {{<<e1, e2>> : e2 \in SecondEntries(e1)} : e1 \in FirstEntries}

\* The filters in per-type mode: near absent or present with or without a
\* radius, the global severity and minMagnitude given or not, eventTypes
\* empty or naming a type with an entry or one without.
PerTypeFilters ==
  {[TimeOnlyFilter EXCEPT !.near = n, !.severity = s, !.minMagnitude = m,
                          !.eventTypes = ets, !.eventTypeFilters = etf] :
     n \in {Nil} \cup {Some([lat |-> 0, lon |-> 0, radiusMiles |-> r]) :
                         r \in Optional(Radii)},
     s \in {<<>>, <<"SEVERE">>},
     m \in Optional(Magnitudes),
     ets \in {<<>>, <<"HAIL">>, <<"TORNADO">>},
     etf \in PerTypeEntries}

PerTypeInit ==
  /\ filter \in PerTypeFilters
  /\ where = <<>> /\ args = <<>> /\ nextIdx = 0
  /\ countArgs = <<>> /\ dataArgs = <<>>
  /\ reports = <<>> /\ totalCount = 0 /\ agg = NoAgg /\ call = "none"
  /\ pages = <<>>
  /\ FacadeIdle
  /\ IngestIdle /\ StoreIdle /\ HttpIdle /\ DepthIdle

PerTypeNext == CallBuildWhereClause

PerTypeSpec == PerTypeInit /\ [][PerTypeNext]_vars

--------------------------------------------------------------------------
\* The per-type conditions of a compiled filter.

\* The radius of the condition of entry tf: its own, else the one of near.
EntryRadius(tf) ==
  IF IsNil(tf.radiusMiles) THEN GlobalRadius(filter) ELSE tf.radiusMiles

\* The radii of all type conditions: those of the entries and the one of
\* near for the eventTypes that have no entry.
TypeRadii ==
  {Deref(EntryRadius(filter.eventTypeFilters[i])) :
     i \in {j \in 1..Len(filter.eventTypeFilters) :
              ~IsNil(EntryRadius(filter.eventTypeFilters[j]))}}
    \cup (IF Range(filter.eventTypes) \ OverriddenTypes # {}
             /\ ~IsNil(GlobalRadius(filter))
          THEN {Deref(GlobalRadius(filter))} ELSE {})

\* The largest of them, 0 when there is none above 0.
LargestRadius == SetMax({0} \cup TypeRadii)

\* Rows of every event type, spot, magnitude and severity drawn, at one
\* time and place.
BoxRows ==
  {Row(DBValue(t), g, m, 0, [state |-> "TX", county |-> "Dallas"], s) :
     t \in EventTypeEnum, g \in GeoPoints, m \in Magnitudes,
     s \in {Nil, Some("severe")}}

\* The clauses of the where list that are bounding boxes.
Boxes == {i \in 1..Len(where) : where[i].kind = "geo BETWEEN"}

EntrySeverity(tf) ==
  IF tf.severity = <<>> THEN filter.severity ELSE tf.severity

\* The minimum magnitude of the condition of entry tf: its own, else the
\* global one.
EntryMinMagnitude(tf) ==
  IF IsNil(tf.minMagnitude) THEN filter.minMagnitude ELSE tf.minMagnitude

\* The values the predicates of kind k of disjunct d are bound to, at
\* placeholder p + shift.
BoundIn(d, k, shift) ==
  [j \in PartsOfKind(d, k) |-> args[d.parts[j].p + shift]]

\* C32: per-type fallback: in the disjunct of an eventTypeFilters entry each
\* of severity, minMagnitude and (with near given) radius is the entry's
\* own value when the entry sets it and the global value when it does not;
\* there is one predicate of each kind at most, so a value the entry sets is
\* not combined with the global one, and none when neither is given.
C32_PerTypeFallback ==
  (call = "where" /\ PerTypeMode) =>
    \A i \in 1..Len(filter.eventTypeFilters) :
      LET tf == filter.eventTypeFilters[i]
          d == Disjuncts[i]
          sev == BoundIn(d, "measurement_severity = ANY", 0)
          mag == BoundIn(d, "measurement_magnitude >=", 0)
          rad == BoundIn(d, "distance <=", 3)
      IN /\ args[d.parts[1].p] = DBValue(tf.eventType)
         /\ IF EntrySeverity(tf) = <<>> THEN DOMAIN sev = {}
            ELSE /\ Cardinality(DOMAIN sev) = 1
                 /\ \A j \in DOMAIN sev :
                      sev[j] = severityDBValues(EntrySeverity(tf))
         /\ IF IsNil(EntryMinMagnitude(tf)) THEN DOMAIN mag = {}
            ELSE /\ Cardinality(DOMAIN mag) = 1
                 /\ \A j \in DOMAIN mag : mag[j] = Deref(EntryMinMagnitude(tf))
         /\ ~IsNil(filter.near) =>
              /\ Cardinality(DOMAIN rad) = 1
              /\ \A j \in DOMAIN rad : rad[j] = Deref(EntryRadius(tf))

\* An entry with a severity of its own and nothing else, under a global
\* severity, minimum magnitude and radius that differ: its disjunct has the
\* entry's severity and the global magnitude and radius.
C32_Witness ==
  /\ call = "where" /\ PerTypeMode /\ ~IsNil(filter.near)
  /\ LET tf == filter.eventTypeFilters[1]
     IN /\ tf.severity # <<>> /\ filter.severity # <<>>
        /\ tf.severity # filter.severity
        /\ IsNil(tf.minMagnitude) /\ ~IsNil(filter.minMagnitude)
        /\ IsNil(tf.radiusMiles)
        /\ Len(Disjuncts[1].parts) = 4
        /\ Len(filter.eventTypeFilters) = 2
        /\ ~IsNil(filter.eventTypeFilters[2].radiusMiles)
        /\ filter.eventTypeFilters[2].radiusMiles # GlobalRadius(filter)

\* C38: a per-type radius is never silently ignored: when an
\* eventTypeFilters entry of an accepted filter sets radiusMiles, the
\* disjunct of its type has a great-circle predicate with that radius, also
\* when near is absent.
C38_PerTypeRadiusKept ==
  (call = "where" /\ PerTypeMode) =>
    \A i \in 1..Len(filter.eventTypeFilters) :
      ~IsNil(filter.eventTypeFilters[i].radiusMiles) =>
        \E j \in PartsOfKind(Disjuncts[i], "distance <=") :
          args[Disjuncts[i].parts[j].p + 3]
            = Deref(filter.eventTypeFilters[i].radiusMiles)

====
